---- MODULE Spec2Model ----
(***************************************************************************)
(* featureflags-go: the targeting-rule evaluation engine (conditions.go)   *)
(* and the versioned state store with its Load/Sync coordinator            *)
(* (client.go, flags.go, values.go).                                       *)
(*                                                                         *)
(* Go values of type `any` are a tagged record [t |-> tag, v |-> payload]. *)
(* Strings held in such values are sequences of character codes, so that   *)
(* ordering, concatenation and substring search are computed; map keys     *)
(* (flag names, value names, context variable names) are TLA+ strings,     *)
(* because the code only ever compares them for equality.                  *)
(* A float64 is held in tenths (25 is 2.5).                                *)
(***************************************************************************)
EXTENDS Integers, Sequences, FiniteSets, TLC

(* ------------------------------ bounds -------------------------------- *)

\* largest version the remote authority reaches
MaxVersion == 2
\* longest flag list and longest value list of one payload
MaxPayload == 1
\* most conditions of one definition in SpecProc
MaxConds == 2
\* most checks of one condition in SpecProc
MaxChecks == 2

(* --------------------------- Go `any` values --------------------------- *)

Nil == [t |-> "nil", v |-> 0]
IntV(n) == [t |-> "int", v |-> n]
FloatV(tenths) == [t |-> "float64", v |-> tenths]
\* the float64 that is not a number: every ordered comparison with it, and ==,
\* is false. A caller may put it into a context; JSON cannot carry it
NaNV == [t |-> "float64", v |-> 0, nan |-> TRUE]
IsNaN(x) == x.t = "float64" /\ "nan" \in DOMAIN x
StrV(s) == [t |-> "string", v |-> s]
BoolV(b) == [t |-> "bool", v |-> b]
\* a []any, as encoding/json decodes a JSON array
ListV(s) == [t |-> "[]any", v |-> s]
\* a []string, as a caller may put into a context
StringsV(s) == [t |-> "[]string", v |-> s]

\* character codes of the strings the model uses
s_gold == <<103, 111, 108, 100>>
s_free == <<102, 114, 101, 101>>
s_go == <<103, 111>>
s_base == <<98>>
s_prem == <<112>>
s_dflt == <<100>>

\* the decimal digits of a natural number, as character codes
RECURSIVE Digits(_)
Digits(n) == IF n < 10 THEN <<48 + n>> ELSE Digits(n \div 10) \o <<48 + (n % 10)>>

\* fmt.Sprintf with the verb v, for an int
FmtInt(n) == IF n < 0 THEN <<45>> \o Digits(0 - n) ELSE Digits(n)

\* fmt.Sprintf with the verb v, for a float64 held in tenths (shortest form)
FmtFloat(x) ==
    LET a == IF x < 0 THEN 0 - x ELSE x
        sign == IF x < 0 THEN <<45>> ELSE <<>>
    IN  IF a % 10 = 0 THEN sign \o Digits(a \div 10)
        ELSE sign \o Digits(a \div 10) \o <<46>> \o <<48 + (a % 10)>>

RECURSIVE JoinSp(_)
JoinSp(ss) ==
    IF Len(ss) = 0 THEN <<>>
    ELSE IF Len(ss) = 1 THEN ss[1]
    ELSE ss[1] \o <<32>> \o JoinSp(Tail(ss))

\* toString: a string as is, anything else through fmt.Sprintf with the verb v
RECURSIVE toString(_)
toString(x) ==
    CASE x.t = "string" -> x.v
      [] x.t = "int" -> FmtInt(x.v)
      [] x.t = "float64" -> IF IsNaN(x) THEN <<78, 97, 78>> ELSE FmtFloat(x.v)
      [] x.t = "bool" -> IF x.v THEN <<116, 114, 117, 101>> ELSE <<102, 97, 108, 115, 101>>
      [] x.t = "nil" -> <<60, 110, 105, 108, 62>>
      [] x.t = "[]string" -> <<91>> \o JoinSp(x.v) \o <<93>>
      [] x.t = "[]any" -> <<91>> \o JoinSp([i \in 1..Len(x.v) |-> toString(x.v[i])]) \o <<93>>

\* toFloat64: whether the value is numeric, and its value in tenths
IsNumeric(x) == x.t \in {"int", "float64"}
toFloat64(x) == IF x.t = "int" THEN 10 * x.v ELSE IF x.t = "float64" THEN x.v ELSE 0

\* toStringSlice: ok flag and the strings
IsSlice(x) == x.t \in {"[]string", "[]any"}
toStringSlice(x) ==
    IF x.t = "[]string" THEN x.v
    ELSE IF x.t = "[]any" THEN [i \in 1..Len(x.v) |-> toString(x.v[i])]
    ELSE <<>>

\* toSet
toSet(slice) == {slice[i] : i \in 1..Len(slice)}

\* Go's < on strings: lexicographic by byte
RECURSIVE StrLess(_, _)
StrLess(a, b) ==
    IF Len(b) = 0 THEN FALSE
    ELSE IF Len(a) = 0 THEN TRUE
    ELSE IF a[1] < b[1] THEN TRUE
    ELSE IF a[1] > b[1] THEN FALSE
    ELSE StrLess(Tail(a), Tail(b))

\* strings.Contains
Contains(s, sub) ==
    \E i \in 0..(Len(s) - Len(sub)) : \A j \in 1..Len(sub) : s[i + j] = sub[j]

(* -------------------------- Operator library ------------------------- *)

OpEqual == 1
OpLessThan == 2
OpLessOrEqual == 3
OpGreaterThan == 4
OpGreaterOrEqual == 5
OpContains == 6
OpPercent == 7
OpRegexp == 8
OpWildcard == 9
OpSubset == 10
OpSuperset == 11

\* the bytes of a context variable's name, for Sprintf of name and value
NameBytes(name) ==
    CASE name = "id" -> <<105, 100>>
      [] name = "tier" -> <<116, 105, 101, 114>>
      [] name = "roles" -> <<114, 111, 108, 101, 115>>

\* md5.Sum(data)[12:16] read as a little-endian uint32, as <<high 16 bits, low 16
\* bits>>: the digests of the byte strings the contexts of this model produce
Md5Tail(data) ==
    CASE data = <<105, 100, 49>> -> <<18760, 58387>>
      [] data = <<105, 100, 55>> -> <<63485, 64471>>
      [] data = <<105, 100, 50, 46, 53>> -> <<34201, 50361>>
      [] data = <<116, 105, 101, 114, 103, 111, 108, 100>> -> <<10638, 45416>>
      [] data = <<116, 105, 101, 114, 102, 114, 101, 101>> -> <<29317, 13164>>
      [] data = <<114, 111, 108, 101, 115, 91, 103, 111, 108, 100, 93>> -> <<27163, 43749>>
      [] data = <<114, 111, 108, 101, 115, 91, 103, 111, 108, 100, 32, 102, 114, 101, 101, 93>>
            -> <<13976, 60286>>
      [] data = <<114, 111, 108, 101, 115, 91, 93>> -> <<63154, 24951>>
      [] data = <<114, 111, 108, 101, 115, 103, 111, 108, 100>> -> <<40323, 4098>>
      [] data = <<105, 100, 78, 97, 78>> -> <<18367, 7008>>

hashFlagValue(name, value) == Md5Tail(NameBytes(name) \o toString(value))

\* hash % 100 of a uint32 given as two 16-bit halves (65536 % 100 = 36)
HashMod100(h) == ((h[1] % 100) * 36 + h[2]) % 100

Has(ctx, name) == name \in DOMAIN ctx

opEqual(name, value, ctx) ==
    IF ~Has(ctx, name) THEN FALSE
    ELSE /\ ~IsNaN(ctx[name]) /\ ~IsNaN(value)
         /\ ctx[name].t = value.t /\ ctx[name].v = value.v

\* ctxVal == value panics at run time when both hold the same slice type
opEqualPanics(name, value, ctx) ==
    Has(ctx, name) /\ ctx[name].t = value.t /\ IsSlice(value)

opLessThan(name, value, ctx) ==
    IF ~Has(ctx, name) THEN FALSE
    ELSE IF ~IsNumeric(value) \/ ~IsNumeric(ctx[name])
         THEN StrLess(toString(ctx[name]), toString(value))
         ELSE /\ ~IsNaN(ctx[name]) /\ ~IsNaN(value)
              /\ toFloat64(ctx[name]) < toFloat64(value)

\* faulty variant: a missing variable is compared as the number zero
opLessOrEqualMissingAsZero(name, value, ctx) ==
    LET x == IF Has(ctx, name) THEN ctx[name] ELSE IntV(0)
    IN  IF ~IsNumeric(value) \/ ~IsNumeric(x)
        THEN ~StrLess(toString(value), toString(x))
        ELSE toFloat64(x) <= toFloat64(value)

opLessOrEqual(name, value, ctx) ==
    IF ~Has(ctx, name) THEN FALSE
    ELSE IF ~IsNumeric(value) \/ ~IsNumeric(ctx[name])
         THEN ~StrLess(toString(value), toString(ctx[name]))
         ELSE /\ ~IsNaN(ctx[name]) /\ ~IsNaN(value)
              /\ toFloat64(ctx[name]) <= toFloat64(value)

opGreaterThan(name, value, ctx) ==
    IF ~Has(ctx, name) THEN FALSE
    ELSE IF ~IsNumeric(value) \/ ~IsNumeric(ctx[name])
         THEN StrLess(toString(value), toString(ctx[name]))
         ELSE /\ ~IsNaN(ctx[name]) /\ ~IsNaN(value)
              /\ toFloat64(ctx[name]) > toFloat64(value)

\* faulty variant: the two sides are always compared as strings
opGreaterOrEqualAsStrings(name, value, ctx) ==
    IF ~Has(ctx, name) THEN FALSE
    ELSE ~StrLess(toString(ctx[name]), toString(value))

opGreaterOrEqual(name, value, ctx) ==
    IF ~Has(ctx, name) THEN FALSE
    ELSE IF ~IsNumeric(value) \/ ~IsNumeric(ctx[name])
         THEN ~StrLess(toString(ctx[name]), toString(value))
         ELSE /\ ~IsNaN(ctx[name]) /\ ~IsNaN(value)
              /\ toFloat64(ctx[name]) >= toFloat64(value)

opContains(name, value, ctx) ==
    IF ~Has(ctx, name) THEN FALSE
    ELSE Contains(toString(ctx[name]), toString(value))

\* uint32(threshold) truncates towards zero. For a negative threshold the
\* conversion is implementation-dependent: CheckOutcomes gives both results
opPercent(name, value, ctx) ==
    IF ~IsNumeric(value) THEN FALSE
    ELSE IF ~Has(ctx, name) THEN FALSE
    ELSE HashMod100(hashFlagValue(name, ctx[name])) < (toFloat64(value) \div 10)

\* regexp.Compile and MatchString for the patterns opWildcard builds and the
\* literal patterns of the model: literal characters, backslash-escaped
\* punctuation, dot, dot-star, the non-capturing dot-star group, caret and
\* dollar. A pattern with a bare opening parenthesis or bracket, or a trailing
\* backslash, does not compile.

Tok(k, c) == [k |-> k, c |-> c]

IsNonCapStar(p) ==
    Len(p) >= 6 /\ SubSeq(p, 1, 6) = <<40, 63, 58, 46, 42, 41>>

RECURSIVE Tokenize(_)
Tokenize(p) ==
    IF Len(p) = 0 THEN <<>>
    ELSE IF IsNonCapStar(p) THEN <<Tok("star", 0)>> \o Tokenize(SubSeq(p, 7, Len(p)))
    ELSE IF p[1] = 92 THEN
        IF Len(p) = 1 THEN <<Tok("bad", 92)>>
        ELSE <<Tok("lit", p[2])>> \o Tokenize(SubSeq(p, 3, Len(p)))
    ELSE IF p[1] = 46 /\ Len(p) >= 2 /\ p[2] = 42
        THEN <<Tok("star", 0)>> \o Tokenize(SubSeq(p, 3, Len(p)))
    ELSE IF p[1] = 46 THEN <<Tok("any", 0)>> \o Tokenize(Tail(p))
    ELSE IF p[1] = 94 THEN <<Tok("bol", 0)>> \o Tokenize(Tail(p))
    ELSE IF p[1] = 36 THEN <<Tok("eol", 0)>> \o Tokenize(Tail(p))
    ELSE IF p[1] \in {40, 91} THEN <<Tok("bad", p[1])>>
    ELSE <<Tok("lit", p[1])>> \o Tokenize(Tail(p))

\* err == nil of regexp.Compile
Compiles(p) == \A i \in 1..Len(Tokenize(p)) : Tokenize(p)[i].k # "bad"

RECURSIVE MatchFrom(_, _, _)
MatchFrom(toks, s, i) ==
    IF Len(toks) = 0 THEN TRUE
    ELSE LET h == toks[1]
             rest == Tail(toks)
         IN  CASE h.k = "bol" -> i = 1 /\ MatchFrom(rest, s, i)
               [] h.k = "eol" -> i = Len(s) + 1 /\ MatchFrom(rest, s, i)
               [] h.k = "lit" -> i <= Len(s) /\ s[i] = h.c /\ MatchFrom(rest, s, i + 1)
               [] h.k = "any" -> i <= Len(s) /\ s[i] # 10 /\ MatchFrom(rest, s, i + 1)
               [] h.k = "star" ->
                    \E j \in i..(Len(s) + 1) :
                        (\A k \in i..(j - 1) : s[k] # 10) /\ MatchFrom(rest, s, j)
               [] OTHER -> FALSE

\* re.MatchString: an unanchored search
MatchString(p, s) == \E i \in 1..(Len(s) + 1) : MatchFrom(Tokenize(p), s, i)

opRegexp(name, value, ctx) ==
    IF ~Compiles(toString(value)) THEN FALSE
    ELSE IF ~Has(ctx, name) THEN FALSE
    ELSE MatchString(toString(value), toString(ctx[name]))

\* strings.Split on the star
RECURSIVE SplitStar(_)
SplitStar(p) ==
    IF \A i \in 1..Len(p) : p[i] # 42 THEN <<p>>
    ELSE LET k == CHOOSE i \in 1..Len(p) : p[i] = 42 /\ \A j \in 1..(i - 1) : p[j] # 42
         IN  <<SubSeq(p, 1, k - 1)>> \o SplitStar(SubSeq(p, k + 1, Len(p)))

\* regexp.QuoteMeta: a backslash before each of \.+*?()|[]{}^$
RECURSIVE QuoteMeta(_)
QuoteMeta(p) ==
    IF Len(p) = 0 THEN <<>>
    ELSE (IF p[1] \in {92, 46, 43, 42, 63, 40, 41, 124, 91, 93, 123, 125, 94, 36}
          THEN <<92, p[1]>> ELSE <<p[1]>>) \o QuoteMeta(Tail(p))

\* strings.Join with the non-capturing dot-star group
RECURSIVE JoinStar(_)
JoinStar(parts) ==
    IF Len(parts) = 0 THEN <<>>
    ELSE IF Len(parts) = 1 THEN parts[1]
    ELSE parts[1] \o <<40, 63, 58, 46, 42, 41>> \o JoinStar(Tail(parts))

WildcardRegex(pattern) ==
    LET parts == SplitStar(pattern)
    IN  <<94>> \o JoinStar([i \in 1..Len(parts) |-> QuoteMeta(parts[i])]) \o <<36>>

opWildcard(name, value, ctx) ==
    opRegexp(name, StrV(WildcardRegex(toString(value))), ctx)

opSubset(name, value, ctx) ==
    IF ~IsSlice(value) \/ Len(toStringSlice(value)) = 0 THEN FALSE
    ELSE IF ~Has(ctx, name) THEN FALSE
    ELSE IF ~IsSlice(ctx[name]) \/ Len(toStringSlice(ctx[name])) = 0 THEN FALSE
    ELSE \A i \in 1..Len(toStringSlice(ctx[name])) :
            toStringSlice(ctx[name])[i] \in toSet(toStringSlice(value))

\* faulty variant: the inclusion of opSubset
opSupersetAsSubset(name, serverValue, ctx) ==
    IF ~IsSlice(serverValue) \/ Len(toStringSlice(serverValue)) = 0 THEN FALSE
    ELSE IF ~Has(ctx, name) THEN FALSE
    ELSE IF ~IsSlice(ctx[name]) \/ Len(toStringSlice(ctx[name])) = 0 THEN FALSE
    ELSE \A i \in 1..Len(toStringSlice(ctx[name])) :
            toStringSlice(ctx[name])[i] \in toSet(toStringSlice(serverValue))

opSuperset(name, serverValue, ctx) ==
    IF ~IsSlice(serverValue) \/ Len(toStringSlice(serverValue)) = 0 THEN FALSE
    ELSE IF ~Has(ctx, name) THEN FALSE
    ELSE IF ~IsSlice(ctx[name]) \/ Len(toStringSlice(ctx[name])) = 0 THEN FALSE
    ELSE \A i \in 1..Len(toStringSlice(serverValue)) :
            toStringSlice(serverValue)[i] \in toSet(toStringSlice(ctx[name]))

\* operatorFuncs: the operators that have an implementation
operatorFuncs == {OpEqual, OpLessThan, OpLessOrEqual, OpGreaterThan, OpGreaterOrEqual,
                  OpContains, OpPercent, OpRegexp, OpWildcard, OpSubset, OpSuperset}

(* -------------------------- Condition compiler ------------------------ *)

\* a Check of the wire format; Variable is the variable's name (its Type is
\* never read by the evaluator)
Check(op, name, value) == [Operator |-> op, Variable |-> name, Value |-> value]

\* a compiled CheckFunc: the always-false closure, or an operator closure
\* holding the name and the literal it captured
FalseCheck == [fn |-> "false", op |-> 0, name |-> "", value |-> Nil]
OpCheck(op, name, value) == [fn |-> "op", op |-> op, name |-> name, value |-> value]

\* faulty variant: an operator without implementation is taken as Equal
checkProcUnknownAsEqual(check) ==
    IF check.Value.t = "nil" THEN FalseCheck
    ELSE IF check.Operator \notin operatorFuncs
    THEN OpCheck(OpEqual, check.Variable, check.Value)
    ELSE OpCheck(check.Operator, check.Variable, check.Value)

checkProc(check) ==
    IF check.Value.t = "nil" THEN FalseCheck
    ELSE IF check.Operator \notin operatorFuncs THEN FalseCheck
    ELSE OpCheck(check.Operator, check.Variable, check.Value)

\* calling a CheckFunc
CallCheck(cf, ctx) ==
    IF cf.fn = "false" THEN FALSE
    ELSE CASE cf.op = OpEqual -> opEqual(cf.name, cf.value, ctx)
           [] cf.op = OpLessThan -> opLessThan(cf.name, cf.value, ctx)
           [] cf.op = OpLessOrEqual -> opLessOrEqual(cf.name, cf.value, ctx)
           [] cf.op = OpGreaterThan -> opGreaterThan(cf.name, cf.value, ctx)
           [] cf.op = OpGreaterOrEqual -> opGreaterOrEqual(cf.name, cf.value, ctx)
           [] cf.op = OpContains -> opContains(cf.name, cf.value, ctx)
           [] cf.op = OpPercent -> opPercent(cf.name, cf.value, ctx)
           [] cf.op = OpRegexp -> opRegexp(cf.name, cf.value, ctx)
           [] cf.op = OpWildcard -> opWildcard(cf.name, cf.value, ctx)
           [] cf.op = OpSubset -> opSubset(cf.name, cf.value, ctx)
           [] cf.op = OpSuperset -> opSuperset(cf.name, cf.value, ctx)

\* faulty variant: an empty list of checks stays empty
compileChecksKeepsEmpty(checks) ==
    [j \in 1..Len(checks) |-> checkProc(checks[j])]

\* the checks of one condition, compiled; an empty list becomes one false check
compileChecks(checks) ==
    IF Len(checks) = 0 THEN <<FalseCheck>>
    ELSE [j \in 1..Len(checks) |-> checkProc(checks[j])]

\* the inner loop of both procs: every check passes (stops at the first failure)
RECURSIVE allPass(_, _)
allPass(checks, ctx) ==
    IF Len(checks) = 0 THEN TRUE
    ELSE IF ~CallCheck(checks[1], ctx) THEN FALSE
    ELSE allPass(Tail(checks), ctx)

\* a FlagProc: nil, the closure over the compiled conditions, or the closure
\* returning flag.Enabled
NilFlagProc == [kind |-> "nil", conditions |-> <<>>, enabled |-> FALSE]

FlagResponse(name, enabled, overridden, conditions) ==
    [Name |-> name, Enabled |-> enabled, Overridden |-> overridden,
     Conditions |-> conditions]

\* faulty variant: the conditions are evaluated whether the flag is enabled or not
flagProcDisabledConds(flag) ==
    IF ~flag.Overridden THEN NilFlagProc
    ELSE LET conditions == [i \in 1..Len(flag.Conditions) |->
                               compileChecks(flag.Conditions[i].Checks)]
         IN  IF Len(conditions) > 0
             THEN [kind |-> "conds", conditions |-> conditions, enabled |-> flag.Enabled]
             ELSE [kind |-> "const", conditions |-> <<>>, enabled |-> flag.Enabled]

\* faulty variant: the overridden field is not tested
flagProcAlways(flag) ==
    IF flag.Enabled /\ Len(flag.Conditions) > 0
    THEN [kind |-> "conds",
          conditions |-> [i \in 1..Len(flag.Conditions) |->
                             compileChecks(flag.Conditions[i].Checks)],
          enabled |-> flag.Enabled]
    ELSE [kind |-> "const", conditions |-> <<>>, enabled |-> flag.Enabled]

flagProc(flag) ==
    IF ~flag.Overridden THEN NilFlagProc
    ELSE LET conditions == [i \in 1..Len(flag.Conditions) |->
                               compileChecks(flag.Conditions[i].Checks)]
         IN  IF flag.Enabled /\ Len(conditions) > 0
             THEN [kind |-> "conds", conditions |-> conditions, enabled |-> flag.Enabled]
             ELSE [kind |-> "const", conditions |-> <<>>, enabled |-> flag.Enabled]

\* faulty variant: only the first condition is tried
anyConditionFirstOnly(conditions, ctx) ==
    IF Len(conditions) = 0 THEN FALSE ELSE allPass(conditions[1], ctx)

\* the loop of the conditions closure: true at the first condition that passes
RECURSIVE anyCondition(_, _)
anyCondition(conditions, ctx) ==
    IF Len(conditions) = 0 THEN FALSE
    ELSE IF allPass(conditions[1], ctx) THEN TRUE
    ELSE anyCondition(Tail(conditions), ctx)

\* calling a non-nil FlagProc
CallFlagProc(proc, ctx) ==
    IF proc.kind = "conds" THEN anyCondition(proc.conditions, ctx)
    ELSE proc.enabled

\* a ValueProc: nil (a registered value no merge has touched), the closure over
\* the compiled conditions, or a closure returning one captured value
NilValueProc == [kind |-> "nil", conditions |-> <<>>, value |-> Nil]

ValueResponse(name, enabled, overridden, valueDefault, valueOverride, conditions) ==
    [Name |-> name, Enabled |-> enabled, Overridden |-> overridden,
     ValueDefault |-> valueDefault, ValueOverride |-> valueOverride,
     Conditions |-> conditions]

\* faulty variant: a disabled definition gives its default
valueProcDisabledDefault(value) ==
    IF ~value.Overridden \/ ~value.Enabled
    THEN [kind |-> "const", conditions |-> <<>>, value |-> value.ValueDefault]
    ELSE LET conditions == [i \in 1..Len(value.Conditions) |->
                               [checks |-> compileChecks(value.Conditions[i].Checks),
                                valueOverride |-> value.Conditions[i].ValueOverride]]
         IN  IF Len(conditions) > 0
             THEN [kind |-> "conds", conditions |-> conditions,
                   value |-> value.ValueOverride]
             ELSE [kind |-> "const", conditions |-> <<>>, value |-> value.ValueOverride]

\* faulty variant: a definition that is not overridden is compiled like an
\* overridden one
valueProcIgnoresOverridden(value) ==
    LET conditions == [i \in 1..Len(value.Conditions) |->
                          [checks |-> compileChecks(value.Conditions[i].Checks),
                           valueOverride |-> value.Conditions[i].ValueOverride]]
    IN  IF value.Enabled /\ Len(conditions) > 0
        THEN [kind |-> "conds", conditions |-> conditions, value |-> value.ValueOverride]
        ELSE [kind |-> "const", conditions |-> <<>>, value |-> value.ValueOverride]

valueProc(value) ==
    IF ~value.Overridden
    THEN [kind |-> "const", conditions |-> <<>>, value |-> value.ValueDefault]
    ELSE LET conditions == [i \in 1..Len(value.Conditions) |->
                               [checks |-> compileChecks(value.Conditions[i].Checks),
                                valueOverride |-> value.Conditions[i].ValueOverride]]
         IN  IF value.Enabled /\ Len(conditions) > 0
             THEN [kind |-> "conds", conditions |-> conditions,
                   value |-> value.ValueOverride]
             ELSE [kind |-> "const", conditions |-> <<>>, value |-> value.ValueOverride]

\* faulty variant: a later passing condition replaces an earlier one
RECURSIVE lastMatch(_, _, _)
lastMatch(conditions, ctx, base) ==
    IF Len(conditions) = 0 THEN base
    ELSE LET n == Len(conditions)
         IN  IF allPass(conditions[n].checks, ctx) THEN conditions[n].valueOverride
             ELSE lastMatch(SubSeq(conditions, 1, n - 1), ctx, base)

\* the loop of the conditions closure: the override of the first condition that
\* passes, else the base override
RECURSIVE firstMatch(_, _, _)
firstMatch(conditions, ctx, base) ==
    IF Len(conditions) = 0 THEN base
    ELSE IF allPass(conditions[1].checks, ctx) THEN conditions[1].valueOverride
    ELSE firstMatch(Tail(conditions), ctx, base)

\* calling a non-nil ValueProc
CallValueProc(proc, ctx) ==
    IF proc.kind = "conds" THEN firstMatch(proc.conditions, ctx, proc.value)
    ELSE proc.value

(* ----------------------------- State store ---------------------------- *)

FlagState(name, enabled, proc) == [Name |-> name, Enabled |-> enabled, Proc |-> proc]

ValueState(name, value, defaultValue, isOverridden, proc) ==
    [Name |-> name, Value |-> value, DefaultValue |-> defaultValue,
     IsOverridden |-> isOverridden, Proc |-> proc]

\* faulty variant: the map is replaced by one holding the new entry alone
PutAlone(m, k, e) == [n \in {k} |-> e]

\* m[k] = e on a Go map
Put(m, k, e) == [n \in DOMAIN m \cup {k} |-> IF n = k THEN e ELSE m[n]]

\* faulty variant: the compiled predicate of an existing entry is kept
updateFlagKeepsProc(fs, flag) ==
    IF flag.Name \in DOMAIN fs THEN fs
    ELSE Put(fs, flag.Name, FlagState(flag.Name, FALSE, flagProc(flag)))

\* one iteration of the flags loop of State.Update
updateFlag(fs, flag) ==
    LET exists == flag.Name \in DOMAIN fs
        defaultEnabled == IF exists THEN fs[flag.Name].Enabled ELSE FALSE
    IN  Put(fs, flag.Name, FlagState(flag.Name, defaultEnabled, flagProc(flag)))

\* faulty variant: the default is taken from the payload even when the key exists
updateValueSeedAlways(vs, value) ==
    [n \in DOMAIN vs \cup {value.Name} |->
        IF n = value.Name
        THEN ValueState(value.Name, value.ValueOverride, value.ValueDefault,
                        value.Overridden, valueProc(value))
        ELSE vs[n]]

\* one iteration of the values loop of State.Update
updateValue(vs, value) ==
    LET exists == value.Name \in DOMAIN vs
        defaultVal == IF exists THEN vs[value.Name].DefaultValue ELSE value.ValueDefault
    IN  Put(vs, value.Name,
            ValueState(value.Name, value.ValueOverride, defaultVal, value.Overridden,
                       valueProc(value)))

\* faulty variant: the version test is missing
neverSkips(stored, version) == FALSE

\* the guard of State.Update: a payload of the stored version is skipped
skipsUpdate(stored, version) == stored = version

\* faulty variant: a name with no entry counts as enabled
getFlagStateMissingOn(fs, name, ctx) ==
    IF name \notin DOMAIN fs THEN TRUE
    ELSE IF fs[name].Proc.kind # "nil" THEN CallFlagProc(fs[name].Proc, ctx)
    ELSE fs[name].Enabled

\* faulty variant: the compiled predicate is never consulted
getFlagStateStatic(fs, name, ctx) ==
    IF name \notin DOMAIN fs THEN FALSE ELSE fs[name].Enabled

getFlagState(fs, name, ctx) ==
    IF name \notin DOMAIN fs THEN FALSE
    ELSE IF fs[name].Proc.kind # "nil" THEN CallFlagProc(fs[name].Proc, ctx)
    ELSE fs[name].Enabled

getValueState(vs, name, ctx) ==
    IF name \notin DOMAIN vs THEN Nil
    ELSE IF vs[name].Proc.kind # "nil" THEN CallValueProc(vs[name].Proc, ctx)
    ELSE vs[name].Value

\* what a typed accessor hands back besides a value: an error of fmt.Errorf, or
\* a panic
ErrNotFound == [t |-> "error: not found", v |-> 0]
ErrCannotCast == [t |-> "error: cannot be cast", v |-> 0]
PanicNeverDefined == [t |-> "panic: never defined in defaults", v |-> 0]
PanicNoValidDefault == [t |-> "panic: no valid default", v |-> 0]

\* int(f) of a float64 held in tenths: the fraction is dropped, toward zero
TruncToInt(tenths) ==
    IF tenths >= 0 THEN tenths \div 10 ELSE 0 - ((0 - tenths) \div 10)

GetValueInt(vs, name, ctx) ==
    LET value == getValueState(vs, name, ctx)
    IN  IF value.t = "nil" THEN ErrNotFound
        ELSE IF value.t = "int" THEN value
        ELSE IF value.t = "float64" THEN IntV(TruncToInt(value.v))
        ELSE ErrCannotCast

GetValueString(vs, name, ctx) ==
    LET value == getValueState(vs, name, ctx)
    IN  IF value.t = "nil" THEN ErrNotFound
        ELSE IF value.t = "string" THEN value
        ELSE ErrCannotCast

MustGetValueInt(vs, name, ctx) ==
    IF name \notin DOMAIN vs THEN PanicNeverDefined
    ELSE LET value == getValueState(vs, name, ctx)
         IN  IF value.t = "int" THEN value
             ELSE IF value.t = "float64" THEN IntV(TruncToInt(value.v))
             ELSE IF vs[name].DefaultValue.t = "int" THEN vs[name].DefaultValue
             ELSE PanicNoValidDefault

MustGetValueString(vs, name, ctx) ==
    IF name \notin DOMAIN vs THEN PanicNeverDefined
    ELSE LET value == getValueState(vs, name, ctx)
         IN  IF value.t = "string" THEN value
             ELSE IF vs[name].DefaultValue.t = "string" THEN vs[name].DefaultValue
             ELSE PanicNoValidDefault

\* faulty variant: an entry counts as overridden once any merge has compiled it
IsValueOverriddenByProc(vs, name) ==
    IF name \in DOMAIN vs THEN vs[name].Proc.kind # "nil" ELSE FALSE

IsValueOverridden(vs, name) ==
    IF name \in DOMAIN vs THEN vs[name].IsOverridden ELSE FALSE

(* ------------------------- inputs of the model ------------------------ *)

\* evaluation contexts: map[string]any; a nil map reads like the empty one
EmptyCtx == [x \in {} |-> Nil]
Contexts ==
    {EmptyCtx,
     [tier |-> StrV(s_gold), id |-> IntV(1)],
     [tier |-> StrV(s_free), id |-> IntV(7)]}

\* names a payload may carry: "A" and "V" are registered at MakeClient, "B" and
\* "W" are not; "N" is never registered and never named by a payload
FlagKeys == {"A", "B"}
ValueKeys == {"V", "W"}
EvalNames == {"A", "B", "V", "W", "N"}

\* the Defaults handed to MakeClient
DefaultsSet ==
    {[Flags |-> <<[Name |-> "A", Enabled |-> TRUE]>>,
      Values |-> <<[Name |-> "V", Value |-> IntV(10)]>>],
     [Flags |-> <<[Name |-> "A", Enabled |-> FALSE]>>,
      Values |-> <<[Name |-> "V", Value |-> StrV(s_dflt)]>>]}

GoldCondition == <<Check(OpEqual, "tier", StrV(s_gold))>>

\* flag definitions and value definitions a payload may carry in SpecStore
FlagDefs ==
    {FlagResponse(n, e, o, c) :
        n \in FlagKeys, e \in BOOLEAN, o \in BOOLEAN,
        c \in {<<>>, <<[Checks |-> GoldCondition]>>}}

ValueDefs ==
    {ValueResponse(n, e, o, FloatV(25), IntV(20), c) :
        n \in ValueKeys, e \in BOOLEAN, o \in BOOLEAN,
        c \in {<<>>, <<[Checks |-> GoldCondition, ValueOverride |-> StrV(s_prem)]>>}}

\* the definitions a response carries in Spec, where goroutines interleave
SyncFlagDefs ==
    {FlagResponse("A", FALSE, FALSE, <<>>),
     FlagResponse("A", TRUE, TRUE, <<>>),
     FlagResponse("A", FALSE, TRUE, <<>>),
     FlagResponse("B", TRUE, TRUE, <<[Checks |-> GoldCondition]>>)}

SyncValueDefs ==
    {ValueResponse("V", TRUE, FALSE, FloatV(25), IntV(20), <<>>),
     ValueResponse("V", TRUE, TRUE, FloatV(25), IntV(20), <<>>),
     ValueResponse("W", TRUE, TRUE, FloatV(25), IntV(20),
                   <<[Checks |-> GoldCondition, ValueOverride |-> StrV(s_prem)]>>)}

NameSet(defs) == {defs[i].Name : i \in 1..Len(defs)}

(* ------------------------------- state -------------------------------- *)

VARIABLES
    version,        \* State.version
    flagState,      \* State.flagState: map[string]FlagState
    valueState,     \* State.valueState: map[string]ValueState
    mu,             \* FeatureFlags.mu: the writer holding it and the readers holding it
    pc,             \* where each goroutine stands
    call,           \* the exported call each goroutine is in: Load, Sync or none
    ready,          \* MakeClient has returned the client
    res,            \* res.Version of the decoded response a goroutine holds (-1: none)
    arg,            \* the evaluation call in progress: accessor, name, context
    out,            \* what that call returns
    serverVersion,  \* the version the remote authority is at
    defaults,       \* the Defaults given to MakeClient
    committed,      \* history (Spec): the store as the last finished merge (or MakeClient) left it
    named,          \* the running merge: the names its payload has named so far, and how
                    \* many elements of the list being looped over have been read
    lastFlagDef,    \* history: the flag definition most recently applied, per name
    unit,           \* the direct calls of flagProc/valueProc (SpecProc)
    err             \* the error a Load or Sync is returning to its caller

vars == <<version, flagState, valueState, mu, pc, call, ready, res, arg, out,
          serverVersion, defaults, committed, named, lastFlagDef, unit, err>>

Procs == {"main", "loop"}

\* a nil error, and the two sentinels Sync and Load join to the cause
NoError == "nil"
ErrorCantSyncFlags == "can not sync flags"
ErrorCantLoadFlags == "can not load flags"

Store == [version |-> version, flagState |-> flagState, valueState |-> valueState]

NoArg == [op |-> "none", name |-> "", ctx |-> EmptyCtx]
NoFlagDef == FlagResponse("", FALSE, FALSE, <<>>)
NoNames == [flags |-> {}, values |-> {}, read |-> 0]
UnitIdle == [stage |-> "idle", kind |-> "none", flag |-> NoFlagDef,
             value |-> ValueResponse("", FALSE, FALSE, Nil, Nil, <<>>),
             ctx |-> EmptyCtx, fproc |-> NilFlagProc, vproc |-> NilValueProc, out |-> Nil]

\* MakeClient up to the call of Load: the maps built from the defaults, version 0
InitFlagState(d) ==
    [n \in NameSet(d.Flags) |->
        LET f == CHOOSE f \in {d.Flags[i] : i \in 1..Len(d.Flags)} : f.Name = n
        IN  FlagState(f.Name, f.Enabled, NilFlagProc)]

\* faulty variant: a value is registered with a predicate, the constant default
InitValueStateCompiled(d) ==
    [n \in NameSet(d.Values) |->
        LET v == CHOOSE v \in {d.Values[i] : i \in 1..Len(d.Values)} : v.Name = n
        IN  ValueState(v.Name, v.Value, v.Value, FALSE,
                       [kind |-> "const", conditions |-> <<>>, value |-> v.Value])]

InitValueState(d) ==
    [n \in NameSet(d.Values) |->
        LET v == CHOOSE v \in {d.Values[i] : i \in 1..Len(d.Values)} : v.Name = n
        IN  ValueState(v.Name, v.Value, v.Value, FALSE, NilValueProc)]

InitClient ==
    /\ defaults \in DefaultsSet
    /\ version = 0
    /\ flagState = InitFlagState(defaults)
    /\ valueState = InitValueState(defaults)
    /\ mu = [writer |-> "none", readers |-> {}]
    /\ call = [p \in Procs |-> "none"]
    /\ ready = FALSE
    /\ res = [p \in Procs |-> -1]
    /\ arg = NoArg
    /\ out = Nil
    /\ committed = [version |-> 0, flagState |-> InitFlagState(defaults),
                    valueState |-> InitValueState(defaults)]
    /\ named = NoNames
    /\ lastFlagDef = [k \in FlagKeys |-> NoFlagDef]
    /\ err = [p \in Procs |-> NoError]

Init ==
    /\ InitClient
    /\ pc = [p \in Procs |-> IF p = "main" THEN "make" ELSE "off"]
    /\ serverVersion = 0
    /\ unit = UnitIdle

(* ------------------------------ actions ------------------------------- *)

\* faulty variant: Lock does not wait for the readers
canLockOverReaders(m) == m.writer = "none"

\* sync.RWMutex: Lock waits for the writer and every reader, RLock for the writer
canLock(m) == m.writer = "none" /\ m.readers = {}
canRLock(m) == m.writer = "none"

\* faulty variant: MakeClient hands the client out and starts SyncLoop whatever
\* the initial Load returned
ReturnFromAlwaysReady(p, ok) ==
    /\ call' = [call EXCEPT ![p] = "none"]
    /\ IF p = "loop" THEN pc' = [pc EXCEPT ![p] = "sleep"] /\ ready' = ready
       ELSE IF ready THEN pc' = [pc EXCEPT ![p] = "ready"] /\ ready' = ready
       ELSE pc' = [q \in Procs |-> IF q = "main" THEN "ready" ELSE "sleep"]
            /\ ready' = TRUE

\* a Load or Sync call returns. The Load of MakeClient decides whether the client
\* is handed out and SyncLoop started (go flagsClient.SyncLoop()), or nil, err
ReturnFrom(p, ok) ==
    /\ call' = [call EXCEPT ![p] = "none"]
    /\ IF p = "loop" THEN pc' = [pc EXCEPT ![p] = "sleep"] /\ ready' = ready
       ELSE IF ready THEN pc' = [pc EXCEPT ![p] = "ready"] /\ ready' = ready
       ELSE IF ok THEN pc' = [q \in Procs |-> IF q = "main" THEN "ready" ELSE "sleep"]
                       /\ ready' = TRUE
       ELSE pc' = [pc EXCEPT ![p] = "failed"] /\ ready' = ready

\* MakeClient calls Load on the client it has built
MakeClientLoad ==
    /\ pc["main"] = "make"
    /\ pc' = [pc EXCEPT !["main"] = "request"]
    /\ call' = [call EXCEPT !["main"] = "Load"]
    /\ UNCHANGED <<version, flagState, valueState, mu, ready, res, arg, out,
                   serverVersion, defaults, committed, named, lastFlagDef, unit, err>>

\* the application calls the exported Sync or Load on the client it was given
CallSyncOrLoad(c) ==
    /\ ready
    /\ pc["main"] = "ready"
    /\ pc' = [pc EXCEPT !["main"] = "request"]
    /\ call' = [call EXCEPT !["main"] = c]
    /\ UNCHANGED <<version, flagState, valueState, mu, ready, res, arg, out,
                   serverVersion, defaults, committed, named, lastFlagDef, unit, err>>

\* SyncLoop: time.Sleep returns and Sync is called
Tick ==
    /\ pc["loop"] = "sleep"
    /\ pc' = [pc EXCEPT !["loop"] = "request"]
    /\ call' = [call EXCEPT !["loop"] = "Sync"]
    /\ UNCHANGED <<version, flagState, valueState, mu, ready, res, arg, out,
                   serverVersion, defaults, committed, named, lastFlagDef, unit, err>>

\* another goroutine is inside a merge that writes: past the version test of
\* State.Update, which did not return, and before the end of the values loop
Merging(p) ==
    \E q \in Procs \ {p} :
        \/ pc[q] = "update" /\ ~skipsUpdate(version, res[q])
        \/ pc[q] \in {"flags", "values"}

\* LoadRequest ranges over state.valueState while another goroutine may assign
\* to that map
MapRace(p) == call[p] = "Load" /\ Merging(p)

\* faulty variant: the write lock is taken before the request is posted
RequestHoldingLock(p) ==
    /\ pc[p] = "request"
    /\ canLock(mu)
    /\ mu' = [mu EXCEPT !.writer = p]
    /\ pc' = [pc EXCEPT ![p] = "wait"]
    /\ UNCHANGED <<version, flagState, valueState, call, ready, res, arg, out,
                   serverVersion, defaults, committed, named, lastFlagDef, unit, err>>

\* SyncRequest / LoadRequest: the request is built from the state (no lock is
\* taken) and posted. What the request carries is not part of the state. A
\* range over a map that is being written is a data race: the request is built
\* all the same, or the runtime stops the process (fatal error: concurrent map
\* iteration and map write)
Request(p) ==
    /\ pc[p] = "request"
    /\ \/ pc' = [pc EXCEPT ![p] = "wait"]
       \/ /\ MapRace(p)
          /\ pc' = [q \in Procs |-> "crashed"]
    /\ UNCHANGED <<version, flagState, valueState, mu, call, ready, res, arg, out,
                   serverVersion, defaults, committed, named, lastFlagDef, unit, err>>

\* the reply arrives with status 200 and decodes: it carries the version the
\* remote authority is at
ResponseOK(p) ==
    /\ pc[p] = "wait"
    /\ res' = [res EXCEPT ![p] = serverVersion]
    /\ pc' = [pc EXCEPT ![p] = "lock"]
    /\ UNCHANGED <<version, flagState, valueState, mu, call, ready, arg, out,
                   serverVersion, defaults, committed, named, lastFlagDef, unit, err>>

\* faulty variant: a reply that fails after its version was decoded leaves that
\* version in the store
ResponseErrKeepsVersion(p) ==
    /\ pc[p] = "wait"
    /\ pc' = [pc EXCEPT ![p] = "erred"]
    /\ err' = [err EXCEPT ![p] = IF call[p] = "Load" THEN ErrorCantLoadFlags
                                 ELSE ErrorCantSyncFlags]
    /\ version' = serverVersion
    /\ UNCHANGED <<flagState, valueState, mu, call, ready, res, arg, out,
                   serverVersion, defaults, committed, named, lastFlagDef, unit>>

\* transport error, status other than 200, or a body that does not decode:
\* SyncRequest / LoadRequest return nil, err, and Sync / Load return the
\* sentinel joined to it before touching the lock
ResponseErr(p) ==
    /\ pc[p] = "wait"
    /\ pc' = [pc EXCEPT ![p] = "erred"]
    /\ err' = [err EXCEPT ![p] = IF call[p] = "Load" THEN ErrorCantLoadFlags
                                 ELSE ErrorCantSyncFlags]
    /\ UNCHANGED <<version, flagState, valueState, mu, call, ready, res, arg, out,
                   serverVersion, defaults, committed, named, lastFlagDef, unit>>

\* faulty variant: SyncLoop returns when Sync has failed
ErrorReturnedEndsLoop(p) ==
    /\ pc[p] = "erred"
    /\ IF p = "loop"
       THEN call' = [call EXCEPT ![p] = "none"] /\ pc' = [pc EXCEPT ![p] = "off"]
            /\ ready' = ready
       ELSE ReturnFrom(p, FALSE)
    /\ err' = IF p = "main" /\ ~ready THEN err ELSE [err EXCEPT ![p] = NoError]
    /\ UNCHANGED <<version, flagState, valueState, mu, res, arg, out,
                   serverVersion, defaults, committed, named, lastFlagDef, unit>>

\* the caller has the error: SyncLoop logs it and sleeps again, the application
\* goes on, MakeClient returns nil and the error
ErrorReturned(p) ==
    /\ pc[p] = "erred"
    /\ ReturnFrom(p, FALSE)
    /\ err' = IF p = "main" /\ ~ready THEN err ELSE [err EXCEPT ![p] = NoError]
    /\ UNCHANGED <<version, flagState, valueState, mu, res, arg, out,
                   serverVersion, defaults, committed, named, lastFlagDef, unit>>

\* flags.mu.Lock()
Lock(p) ==
    /\ pc[p] = "lock"
    /\ canLock(mu)
    /\ mu' = [mu EXCEPT !.writer = p]
    /\ pc' = [pc EXCEPT ![p] = "update"]
    /\ UNCHANGED <<version, flagState, valueState, call, ready, res, arg, out,
                   serverVersion, defaults, committed, named, lastFlagDef, unit, err>>

\* State.Update, the version test and the version write
UpdateBegin(p) ==
    /\ pc[p] = "update"
    /\ IF skipsUpdate(version, res[p])
       THEN pc' = [pc EXCEPT ![p] = "updated"] /\ version' = version
       ELSE pc' = [pc EXCEPT ![p] = "flags"] /\ version' = res[p]
    /\ UNCHANGED <<flagState, valueState, mu, call, ready, res, arg, out,
                   serverVersion, defaults, committed, named, lastFlagDef, unit, err>>

\* State.Update, the loop over the flags of the payload: one iteration on the
\* next element, or the end of the list. An element is drawn when the loop reads
\* it: nothing reads the decoded payload between its receipt and the merge
UpdateFlagFrom(p, pool) ==
    /\ pc[p] = "flags"
    /\ \/ /\ named.read < MaxPayload
          /\ \E flag \in pool :
                /\ flagState' = updateFlag(flagState, flag)
                /\ lastFlagDef' = [lastFlagDef EXCEPT ![flag.Name] = flag]
                /\ named' = [named EXCEPT !.flags = @ \cup {flag.Name}, !.read = @ + 1]
          /\ pc' = pc
       \/ /\ pc' = [pc EXCEPT ![p] = "values"]
          /\ named' = [named EXCEPT !.read = 0]
          /\ UNCHANGED <<flagState, lastFlagDef>>
    /\ UNCHANGED <<version, valueState, mu, call, ready, res, arg, out,
                   serverVersion, defaults, committed, unit, err>>

\* State.Update, the loop over the values of the payload
UpdateValueFrom(p, pool) ==
    /\ pc[p] = "values"
    /\ \/ /\ named.read < MaxPayload
          /\ \E value \in pool :
                /\ valueState' = updateValue(valueState, value)
                /\ named' = [named EXCEPT !.values = @ \cup {value.Name}, !.read = @ + 1]
          /\ pc' = pc
       \/ /\ pc' = [pc EXCEPT ![p] = "updated"]
          /\ named' = [named EXCEPT !.read = 0]
          /\ UNCHANGED valueState
    /\ UNCHANGED <<version, flagState, mu, call, ready, res, arg, out,
                   serverVersion, defaults, committed, lastFlagDef, unit, err>>

UpdateFlag(p) == UpdateFlagFrom(p, SyncFlagDefs)
UpdateValue(p) == UpdateValueFrom(p, SyncValueDefs)

\* the deferred flags.mu.Unlock() and return nil
Unlock(p) ==
    /\ pc[p] = "updated"
    /\ mu' = [mu EXCEPT !.writer = "none"]
    /\ res' = [res EXCEPT ![p] = -1]
    /\ committed' = Store
    /\ named' = NoNames
    /\ ReturnFrom(p, TRUE)
    /\ UNCHANGED <<version, flagState, valueState, arg, out,
                   serverVersion, defaults, lastFlagDef, unit, err>>

\* Get / GetValue: flags.mu.RLock()
RLock ==
    /\ ready
    /\ pc["main"] = "ready"
    /\ canRLock(mu)
    /\ mu' = [mu EXCEPT !.readers = @ \cup {"main"}]
    /\ pc' = [pc EXCEPT !["main"] = "rlocked"]
    /\ UNCHANGED <<version, flagState, valueState, call, ready, res, arg, out,
                   serverVersion, defaults, committed, named, lastFlagDef, unit, err>>

\* what an accessor computes from the store for a name and a context
Evaluation(fs, vs, a) ==
    CASE a.op = "Get" -> BoolV(getFlagState(fs, a.name, a.ctx))
      [] a.op = "GetValue" -> getValueState(vs, a.name, a.ctx)
      [] a.op = "GetValueInt" -> GetValueInt(vs, a.name, a.ctx)
      [] a.op = "GetValueString" -> GetValueString(vs, a.name, a.ctx)
      [] a.op = "MustGetValueInt" -> MustGetValueInt(vs, a.name, a.ctx)
      [] a.op = "MustGetValueString" -> MustGetValueString(vs, a.name, a.ctx)
      [] a.op = "IsValueOverridden" -> BoolV(IsValueOverridden(vs, a.name))

EvalArgs ==
    {[op |-> "Get", name |-> n, ctx |-> c] : n \in {"A", "B", "N"}, c \in Contexts}
    \cup {[op |-> "GetValue", name |-> n, ctx |-> c] : n \in {"V", "W", "N"}, c \in Contexts}

\* the calls an application makes while SyncLoop runs: also IsValueOverridden
SyncEvalArgs ==
    EvalArgs
    \cup {[op |-> "IsValueOverridden", name |-> n, ctx |-> EmptyCtx] : n \in {"V", "W", "N"}}

\* the evaluation under the read lock: getFlagState / getValueState on the
\* name and context the caller passed
Evaluate ==
    /\ pc["main"] = "rlocked"
    /\ \E a \in SyncEvalArgs :
        /\ arg' = a
        /\ out' = Evaluation(flagState, valueState, a)
    /\ pc' = [pc EXCEPT !["main"] = "runlock"]
    /\ UNCHANGED <<version, flagState, valueState, mu, call, ready, res,
                   serverVersion, defaults, committed, named, lastFlagDef, unit, err>>

\* the deferred flags.mu.RUnlock() and the return to the caller
RUnlock ==
    /\ pc["main"] = "runlock"
    /\ mu' = [mu EXCEPT !.readers = @ \ {"main"}]
    /\ pc' = [pc EXCEPT !["main"] = "ready"]
    /\ arg' = NoArg
    /\ out' = Nil
    /\ UNCHANGED <<version, flagState, valueState, call, ready, res,
                   serverVersion, defaults, committed, named, lastFlagDef, unit, err>>

\* the remote authority moves to its next version
ServerAdvance ==
    /\ serverVersion < MaxVersion
    /\ serverVersion' = serverVersion + 1
    /\ UNCHANGED <<version, flagState, valueState, mu, pc, call, ready, res, arg, out,
                   defaults, committed, named, lastFlagDef, unit, err>>

Next ==
    \/ MakeClientLoad
    \/ \E c \in {"Sync", "Load"} : CallSyncOrLoad(c)
    \/ Tick
    \/ \E p \in Procs : Request(p)
    \/ \E p \in Procs : ResponseOK(p)
    \/ \E p \in Procs : ResponseErr(p)
    \/ \E p \in Procs : ErrorReturned(p)
    \/ \E p \in Procs : Lock(p)
    \/ \E p \in Procs : UpdateBegin(p)
    \/ \E p \in Procs : UpdateFlag(p)
    \/ \E p \in Procs : UpdateValue(p)
    \/ \E p \in Procs : Unlock(p)
    \/ RLock
    \/ Evaluate
    \/ RUnlock
    \/ ServerAdvance

Spec == Init /\ [][Next]_vars

\* the specification of the progress of SyncLoop: the goroutines of Spec, with
\* payloads that carry the same one flag and the same one value, and with an
\* application that evaluates and calls Sync beside the loop. Load is called by
\* MakeClient only, so LoadRequest does not range over the map of values while
\* the loop merges
LiveFlagDefs == {FlagResponse("A", TRUE, TRUE, <<>>)}
LiveValueDefs == {ValueResponse("V", TRUE, TRUE, FloatV(25), IntV(20), <<>>)}

NextLive ==
    \/ MakeClientLoad
    \/ CallSyncOrLoad("Sync")
    \/ Tick
    \/ \E p \in Procs : Request(p)
    \/ \E p \in Procs : ResponseOK(p)
    \/ \E p \in Procs : ResponseErr(p)
    \/ \E p \in Procs : ErrorReturned(p)
    \/ \E p \in Procs : Lock(p)
    \/ \E p \in Procs : UpdateBegin(p)
    \/ \E p \in Procs : UpdateFlagFrom(p, LiveFlagDefs)
    \/ \E p \in Procs : UpdateValueFrom(p, LiveValueDefs)
    \/ \E p \in Procs : Unlock(p)
    \/ RLock
    \/ Evaluate
    \/ RUnlock
    \/ ServerAdvance

\* the steps SyncLoop takes by itself once it may: the return of time.Sleep, the
\* handling of the error of Sync, the merge under the lock and the unlock
LoopStep ==
    \/ Tick
    \/ ErrorReturned("loop")
    \/ UpdateBegin("loop")
    \/ UpdateFlagFrom("loop", LiveFlagDefs)
    \/ UpdateValueFrom("loop", LiveValueDefs)
    \/ Unlock("loop")

\* the steps by which the application leaves a locked section it is in
MainLockedStep ==
    \/ Evaluate
    \/ RUnlock
    \/ UpdateBegin("main")
    \/ UpdateFlagFrom("main", LiveFlagDefs)
    \/ UpdateValueFrom("main", LiveValueDefs)
    \/ Unlock("main")

\* the scheduler runs a goroutine that can run; a pending Lock of sync.RWMutex
\* keeps new readers out, so a Lock that is possible again and again is taken.
\* Nothing makes a reply arrive: a request without a reply stays in flight
SpecLive ==
    /\ Init
    /\ [][NextLive]_vars
    /\ WF_vars(LoopStep)
    /\ WF_vars(MainLockedStep)
    /\ SF_vars(Lock("loop"))

(* State.Update and the evaluators called directly on one State, with no    *)
(* goroutine beside the caller (as the tests of the package call them).     *)

InitStore ==
    /\ InitClient
    /\ pc = [p \in Procs |-> IF p = "main" THEN "direct" ELSE "off"]
    /\ serverVersion = 0
    /\ unit = UnitIdle

\* state.Update(version, flags, values) is called
DirectUpdate ==
    /\ pc["main"] = "direct"
    /\ \E v \in 0..MaxVersion : res' = [res EXCEPT !["main"] = v]
    /\ pc' = [pc EXCEPT !["main"] = "update"]
    /\ arg' = NoArg
    /\ out' = Nil
    /\ UNCHANGED <<version, flagState, valueState, mu, call, ready,
                   serverVersion, defaults, committed, named, lastFlagDef, unit, err>>

\* state.Update returns
DirectReturn ==
    /\ pc["main"] = "updated"
    /\ pc' = [pc EXCEPT !["main"] = "direct"]
    /\ res' = [res EXCEPT !["main"] = -1]
    /\ named' = NoNames
    /\ UNCHANGED <<version, flagState, valueState, mu, call, ready, arg, out,
                   serverVersion, defaults, committed, lastFlagDef, unit, err>>

\* state.getFlagState(name, ctx) / state.getValueState(name, ctx)
DirectEvaluate ==
    /\ pc["main"] = "direct"
    /\ \E a \in EvalArgs :
        /\ arg' = a
        /\ out' = Evaluation(flagState, valueState, a)
    /\ UNCHANGED <<version, flagState, valueState, mu, pc, call, ready, res,
                   serverVersion, defaults, committed, named, lastFlagDef, unit, err>>

NextStore ==
    \/ DirectUpdate
    \/ UpdateBegin("main")
    \/ UpdateFlagFrom("main", FlagDefs)
    \/ UpdateValueFrom("main", ValueDefs)
    \/ DirectReturn
    \/ DirectEvaluate

SpecStore == InitStore /\ [][NextStore]_vars

(* The typed accessors called on a client no other goroutine uses (as the   *)
(* tests of values_test.go call them), between direct calls of State.Update. *)

\* the Defaults handed to MakeClient: an int, a string or a float64 default
AccessDefaultsSet ==
    DefaultsSet \cup {[Flags |-> <<[Name |-> "A", Enabled |-> TRUE]>>,
                       Values |-> <<[Name |-> "V", Value |-> FloatV(25)]>>]}

AccessFlagDefs == {FlagResponse("A", TRUE, TRUE, <<>>)}

\* the value definitions of SpecStore, a JSON null as value_override, and a
\* string as value_default next to a number as value_override
AccessValueDefs ==
    ValueDefs
    \cup {ValueResponse(n, TRUE, TRUE, FloatV(25), Nil, <<>>) : n \in ValueKeys}
    \cup {ValueResponse("W", TRUE, o, StrV(s_dflt), IntV(20), <<>>) : o \in BOOLEAN}

AccessArgs ==
    {[op |-> o, name |-> n, ctx |-> c] :
        o \in {"GetValue", "GetValueInt", "GetValueString",
                "MustGetValueInt", "MustGetValueString"},
        n \in {"V", "W", "N"},
        c \in {EmptyCtx, [tier |-> StrV(s_gold), id |-> IntV(1)]}}

InitAccess ==
    /\ defaults \in AccessDefaultsSet
    /\ version = 0
    /\ flagState = InitFlagState(defaults)
    /\ valueState = InitValueState(defaults)
    /\ mu = [writer |-> "none", readers |-> {}]
    /\ call = [p \in Procs |-> "none"]
    /\ ready = FALSE
    /\ res = [p \in Procs |-> -1]
    /\ arg = NoArg
    /\ out = Nil
    /\ committed = [version |-> 0, flagState |-> InitFlagState(defaults),
                    valueState |-> InitValueState(defaults)]
    /\ named = NoNames
    /\ lastFlagDef = [k \in FlagKeys |-> NoFlagDef]
    /\ err = [p \in Procs |-> NoError]
    /\ pc = [p \in Procs |-> IF p = "main" THEN "direct" ELSE "off"]
    /\ serverVersion = 0
    /\ unit = UnitIdle

\* GetValue / GetValueInt / GetValueString / MustGetValueInt /
\* MustGetValueString: the read lock is free, so RLock, the body and the deferred RUnlock run through
DirectAccess ==
    /\ pc["main"] = "direct"
    /\ \E a \in AccessArgs :
        /\ arg' = a
        /\ out' = Evaluation(flagState, valueState, a)
    /\ UNCHANGED <<version, flagState, valueState, mu, pc, call, ready, res,
                   serverVersion, defaults, committed, named, lastFlagDef, unit, err>>

NextAccess ==
    \/ DirectUpdate
    \/ UpdateBegin("main")
    \/ UpdateFlagFrom("main", AccessFlagDefs)
    \/ UpdateValueFrom("main", AccessValueDefs)
    \/ DirectReturn
    \/ DirectAccess

SpecAccess == InitAccess /\ [][NextAccess]_vars

(* flagProc and valueProc called directly on one definition, and the proc   *)
(* they return called on one context (as TestFlagProc and TestValueProc do). *)

\* sequences over S of length at most n
RECURSIVE SeqsUpTo(_, _)
SeqsUpTo(S, n) ==
    IF n = 0 THEN {<<>>}
    ELSE LET shorter == SeqsUpTo(S, n - 1)
         IN  shorter \cup {Append(q, x) : q \in {r \in shorter : Len(r) = n - 1}, x \in S}

UnitContexts == Contexts \cup {[tier |-> StrV(s_gold), id |-> IntV(7)]}

UnitChecks == {Check(OpEqual, "tier", StrV(s_gold)), Check(OpLessThan, "id", IntV(5))}

UnitCheckLists == SeqsUpTo(UnitChecks, MaxChecks)

UnitFlagDefs ==
    {FlagResponse("A", e, o, c) :
        e \in BOOLEAN, o \in BOOLEAN,
        c \in SeqsUpTo({[Checks |-> l] : l \in UnitCheckLists}, MaxConds)}

UnitValueDefs ==
    {ValueResponse("V", e, o, StrV(s_dflt), StrV(s_base), c) :
        e \in BOOLEAN, o \in BOOLEAN,
        c \in SeqsUpTo({[Checks |-> l, ValueOverride |-> w] :
                           l \in UnitCheckLists, w \in {StrV(s_prem), StrV(s_gold)}},
                       MaxConds)}

InitProc ==
    /\ InitClient
    /\ pc = [p \in Procs |-> "off"]
    /\ serverVersion = 0
    /\ \E c \in UnitContexts :
        \/ \E f \in UnitFlagDefs :
              unit = [UnitIdle EXCEPT !.stage = "input", !.kind = "flag", !.flag = f, !.ctx = c]
        \/ \E v \in UnitValueDefs :
              unit = [UnitIdle EXCEPT !.stage = "input", !.kind = "value", !.value = v, !.ctx = c]

\* proc := flagProc(flag)
CompileFlag ==
    /\ unit.stage = "input"
    /\ unit.kind = "flag"
    /\ unit' = [unit EXCEPT !.stage = "compiled", !.fproc = flagProc(unit.flag)]
    /\ UNCHANGED <<version, flagState, valueState, mu, pc, call, ready, res, arg, out,
                   serverVersion, defaults, committed, named, lastFlagDef, err>>

\* proc(ctx), for a proc that is not nil
CallFlag ==
    /\ unit.stage = "compiled"
    /\ unit.kind = "flag"
    /\ unit.fproc.kind # "nil"
    /\ unit' = [unit EXCEPT !.stage = "called",
                            !.out = BoolV(CallFlagProc(unit.fproc, unit.ctx))]
    /\ UNCHANGED <<version, flagState, valueState, mu, pc, call, ready, res, arg, out,
                   serverVersion, defaults, committed, named, lastFlagDef, err>>

\* proc := valueProc(value)
CompileValue ==
    /\ unit.stage = "input"
    /\ unit.kind = "value"
    /\ unit' = [unit EXCEPT !.stage = "compiled", !.vproc = valueProc(unit.value)]
    /\ UNCHANGED <<version, flagState, valueState, mu, pc, call, ready, res, arg, out,
                   serverVersion, defaults, committed, named, lastFlagDef, err>>

\* proc(ctx)
CallValue ==
    /\ unit.stage = "compiled"
    /\ unit.kind = "value"
    /\ unit' = [unit EXCEPT !.stage = "called", !.out = CallValueProc(unit.vproc, unit.ctx)]
    /\ UNCHANGED <<version, flagState, valueState, mu, pc, call, ready, res, arg, out,
                   serverVersion, defaults, committed, named, lastFlagDef, err>>

NextProc == CompileFlag \/ CallFlag \/ CompileValue \/ CallValue

SpecProc == InitProc /\ [][NextProc]_vars

(* checkProc called directly on one check, and the CheckFunc it returns      *)
(* called on one context (as TestOpEqual ... TestOpSuperset do).             *)

\* Operator values of the wire: the eleven that have an implementation, and 0
\* and 12, which have none
OpCodes == 0..(OpSuperset + 1)

\* literals a check may carry: JSON null, numbers, strings, a bool, arrays
OpLiterals ==
    {Nil, IntV(0), IntV(5), IntV(100), FloatV(475), FloatV(-10),
     StrV(s_gold), StrV(s_go), StrV(<<40>>), StrV(<<103, 42>>), BoolV(TRUE),
     ListV(<<>>), ListV(<<StrV(s_gold)>>), ListV(<<StrV(s_gold), StrV(s_free)>>),
     ListV(<<IntV(1)>>)}

\* the literals whose text, as a regular expression, stays within what
\* Tokenize reads: no quantifier and no character class
RegexpLiterals ==
    {Nil, IntV(0), IntV(5), IntV(100), FloatV(475), FloatV(-10),
     StrV(s_gold), StrV(s_go), StrV(<<40>>), BoolV(TRUE)}

OpChecks ==
    {Check(op, n, v) : op \in OpCodes \ {OpRegexp}, n \in {"id", "tier", "roles"},
                       v \in OpLiterals}
    \cup {Check(OpRegexp, n, v) : n \in {"id", "tier", "roles"}, v \in RegexpLiterals}

OpContexts ==
    {EmptyCtx,
     [id |-> IntV(1)], [id |-> IntV(7)], [id |-> FloatV(25)], [id |-> NaNV],
     [tier |-> StrV(s_gold)], [tier |-> StrV(s_free)],
     [roles |-> ListV(<<StrV(s_gold)>>)], [roles |-> StringsV(<<s_gold, s_free>>)],
     [roles |-> ListV(<<>>)], [roles |-> StrV(s_gold)],
     [tier |-> StrV(s_gold), id |-> IntV(1)]}

\* a CheckFunc panics: the == of opEqual on two values of one slice type
PanicUncomparable == [t |-> "panic: comparing uncomparable type", v |-> 0]

\* what calling a CheckFunc can give. uint32(threshold) of a negative float64
\* is implementation-dependent, so the comparison of opPercent may go either way
CheckOutcomes(cf, ctx) ==
    IF cf.fn = "op" /\ cf.op = OpEqual /\ opEqualPanics(cf.name, cf.value, ctx)
    THEN {PanicUncomparable}
    ELSE IF cf.fn = "op" /\ cf.op = OpPercent /\ IsNumeric(cf.value)
            /\ toFloat64(cf.value) < 0 /\ Has(ctx, cf.name)
    THEN {BoolV(TRUE), BoolV(FALSE)}
    ELSE {BoolV(CallCheck(cf, ctx))}

InitOp ==
    /\ InitClient
    /\ pc = [p \in Procs |-> "off"]
    /\ serverVersion = 0
    /\ \E c \in OpChecks, x \in OpContexts :
          unit = [stage |-> "input", kind |-> "check", check |-> c, ctx |-> x,
                  cproc |-> FalseCheck, out |-> Nil]

\* cf := checkProc(check)
CompileCheck ==
    /\ unit.stage = "input"
    /\ unit.kind = "check"
    /\ unit' = [unit EXCEPT !.stage = "compiled", !.cproc = checkProc(unit.check)]
    /\ UNCHANGED <<version, flagState, valueState, mu, pc, call, ready, res, arg, out,
                   serverVersion, defaults, committed, named, lastFlagDef, err>>

\* cf(ctx)
CallCheckFunc ==
    /\ unit.stage = "compiled"
    /\ unit.kind = "check"
    /\ \E o \in CheckOutcomes(unit.cproc, unit.ctx) :
          unit' = [unit EXCEPT !.stage = "called", !.out = o]
    /\ UNCHANGED <<version, flagState, valueState, mu, pc, call, ready, res, arg, out,
                   serverVersion, defaults, committed, named, lastFlagDef, err>>

NextOp == CompileCheck \/ CallCheckFunc

SpecOp == InitOp /\ [][NextOp]_vars

(* ------------------------------- claims ------------------------------- *)

\* C1: no evaluation observes a partially merged store. While a Get / GetValue
\* holds the read lock the store is the one the last finished merge (or
\* MakeClient) left, and the value it returns is computed from that store.
NoPartialRead ==
    pc["main"] \in {"rlocked", "runlock"} =>
        /\ Store = committed
        /\ pc["main"] = "runlock" =>
              out = Evaluation(committed.flagState, committed.valueState, arg)

\* C1 witness: an evaluation has run after a merge, while SyncLoop holds a decoded
\* response of another version and waits for the write lock
NoPartialReadWitness ==
    /\ pc["main"] = "runlock"
    /\ pc["loop"] = "lock"
    /\ version # 0
    /\ res["loop"] # version

\* C2: a merge whose version equals the stored version changes nothing: when
\* State.Update returns, the version, every flag entry and every value entry are
\* as the merge found them.
SameVersionMergeChangesNothing ==
    \A p \in Procs :
        (pc[p] = "updated" /\ res[p] = committed.version) => Store = committed

\* C2 witness: a second merge of a version already merged has returned
SameVersionMergeWitness ==
    \E p \in Procs :
        /\ pc[p] = "updated"
        /\ res[p] = committed.version
        /\ committed.version # 0
        /\ "B" \in DOMAIN flagState

SameFlagEntry(k) ==
    /\ k \in DOMAIN flagState <=> k \in DOMAIN committed.flagState
    /\ k \in DOMAIN flagState => flagState[k] = committed.flagState[k]
    /\ \A ctx \in Contexts :
          getFlagState(flagState, k, ctx) = getFlagState(committed.flagState, k, ctx)

SameValueEntry(k) ==
    /\ k \in DOMAIN valueState <=> k \in DOMAIN committed.valueState
    /\ k \in DOMAIN valueState => valueState[k] = committed.valueState[k]
    /\ \A ctx \in Contexts :
          getValueState(valueState, k, ctx) = getValueState(committed.valueState, k, ctx)

\* C4: a version-changing merge leaves every key its payload does not name
\* untouched: when State.Update returns, the entry of such a key (or its absence)
\* and its evaluation for every context are as the merge found them.
UnnamedKeysUntouched ==
    \A p \in Procs :
        (pc[p] = "updated" /\ res[p] # committed.version) =>
            /\ \A k \in (FlagKeys \cup {"N"}) \ named.flags : SameFlagEntry(k)
            /\ \A k \in (ValueKeys \cup {"N"}) \ named.values : SameValueEntry(k)

\* C4 witness: a version-changing merge that named flag A and value V has
\* returned, and flag B and value W, which it did not name, hold compiled
\* predicates of an earlier merge
UnnamedKeysWitness ==
    \E p \in Procs :
        /\ pc[p] = "updated"
        /\ res[p] # committed.version
        /\ named.flags = {"A"}
        /\ named.values = {"V"}
        /\ "B" \in DOMAIN flagState
        /\ "W" \in DOMAIN valueState

\* C5: the stored version never decreases.
VersionNeverDecreases == [][version' >= version]_vars

Registered(k) == \E i \in 1..Len(defaults.Flags) : defaults.Flags[i].Name = k

\* the default a flag was registered with; false for a flag never registered
\* (State.Update seeds the entry of an unknown flag with false)
RegisteredDefault(k) ==
    \E i \in 1..Len(defaults.Flags) :
        defaults.Flags[i].Name = k /\ defaults.Flags[i].Enabled

\* C3: for every key registered at MakeClient, after any sequence of merges,
\* FlagState.Enabled and ValueState.DefaultValue are what was registered.
DefaultsPreserved ==
    /\ \A i \in 1..Len(defaults.Flags) :
          /\ defaults.Flags[i].Name \in DOMAIN flagState
          /\ flagState[defaults.Flags[i].Name].Enabled = defaults.Flags[i].Enabled
    /\ \A i \in 1..Len(defaults.Values) :
          /\ defaults.Values[i].Name \in DOMAIN valueState
          /\ valueState[defaults.Values[i].Name].DefaultValue = defaults.Values[i].Value

\* C3 witness: merges have replaced the compiled predicate of flag A (by a
\* definition whose enabled field differs from the default) and the current
\* value and overridden flag of value V
DefaultsPreservedWitness ==
    /\ pc["main"] = "direct"
    /\ lastFlagDef["A"].Name = "A"
    /\ lastFlagDef["A"].Overridden
    /\ lastFlagDef["A"].Enabled # flagState["A"].Enabled
    /\ valueState["V"].IsOverridden
    /\ valueState["V"].Value # valueState["V"].DefaultValue

\* C6: once a merge has applied a flag definition with overridden=false, the flag
\* has no compiled predicate and evaluates to its registered default for every
\* context; and a flag's compiled predicate is absent exactly when no definition
\* was applied to it or the last one applied had overridden=false.
NotOverriddenKeepsDefault ==
    \A k \in FlagKeys :
        /\ (lastFlagDef[k].Name = k /\ ~lastFlagDef[k].Overridden) =>
              /\ k \in DOMAIN flagState
              /\ flagState[k].Proc = NilFlagProc
              /\ \A ctx \in Contexts :
                    getFlagState(flagState, k, ctx) = RegisteredDefault(k)
              /\ (arg.op = "Get" /\ arg.name = k) => out = BoolV(RegisteredDefault(k))
        /\ k \in DOMAIN flagState =>
              (flagState[k].Proc = NilFlagProc
                  <=> (lastFlagDef[k] = NoFlagDef \/ ~lastFlagDef[k].Overridden))

\* C6 witness: the registered flag A, default true, was last given a definition
\* with overridden=false, enabled=false and a condition, and has been evaluated
\* on a context that satisfies the condition
NotOverriddenWitness ==
    /\ lastFlagDef["A"].Name = "A"
    /\ ~lastFlagDef["A"].Overridden
    /\ ~lastFlagDef["A"].Enabled
    /\ Len(lastFlagDef["A"].Conditions) > 0
    /\ RegisteredDefault("A")
    /\ arg.op = "Get"
    /\ arg.name = "A"
    /\ "tier" \in DOMAIN arg.ctx
    /\ arg.ctx["tier"] = StrV(s_gold)
    /\ version = 2

\* C7: evaluating a name that has no entry gives false for a flag and nil for a
\* value, for every context; a name no payload named and MakeClient did not
\* register never has an entry.
MissingNameEvaluation ==
    /\ (arg.op = "Get" /\ arg.name \notin DOMAIN flagState) => out = BoolV(FALSE)
    /\ (arg.op = "GetValue" /\ arg.name \notin DOMAIN valueState) => out = Nil
    /\ \A ctx \in Contexts :
          /\ \A n \in EvalNames \ DOMAIN flagState : getFlagState(flagState, n, ctx) = FALSE
          /\ \A n \in EvalNames \ DOMAIN valueState : getValueState(valueState, n, ctx) = Nil
    /\ "N" \notin DOMAIN flagState
    /\ "N" \notin DOMAIN valueState

\* C7 witness: after merges, a flag name with no entry has been evaluated on a
\* non-empty context
MissingNameWitness ==
    /\ arg.op = "Get"
    /\ arg.name = "N"
    /\ arg.ctx # EmptyCtx
    /\ version # 0
    /\ "B" \in DOMAIN flagState
    /\ "W" \notin DOMAIN valueState

\* C9: a flag whose last applied definition has overridden=true and no
\* conditions evaluates to that definition's enabled field for every context,
\* the empty one included, whatever the flag's local default.
ConstantEnabled ==
    \A k \in FlagKeys :
        (lastFlagDef[k].Name = k /\ lastFlagDef[k].Overridden
            /\ Len(lastFlagDef[k].Conditions) = 0) =>
            /\ \A ctx \in Contexts :
                  getFlagState(flagState, k, ctx) = lastFlagDef[k].Enabled
            /\ (arg.op = "Get" /\ arg.name = k) => out = BoolV(lastFlagDef[k].Enabled)

\* C9 witness: flag A, whose default is the opposite of the enabled field of its
\* overridden, condition-free definition, has been evaluated on the empty context
ConstantEnabledWitness ==
    /\ lastFlagDef["A"].Name = "A"
    /\ lastFlagDef["A"].Overridden
    /\ Len(lastFlagDef["A"].Conditions) = 0
    /\ lastFlagDef["A"].Enabled # flagState["A"].Enabled
    /\ arg.op = "Get"
    /\ arg.name = "A"
    /\ arg.ctx = EmptyCtx

\* a check of a definition is true for a context
CheckHolds(check, ctx) == CallCheck(checkProc(check), ctx)

\* the permutations of 1..n
Perms(n) == {f \in [1..n -> 1..n] : \A i, j \in 1..n : f[i] = f[j] => i = j}

\* the compiled flag predicate gives the same result whatever the order of the
\* conditions
OrderIrrelevant(flag, ctx, result) ==
    \A f \in Perms(Len(flag.Conditions)) :
        LET permuted == [flag EXCEPT !.Conditions =
                            [i \in 1..Len(flag.Conditions) |-> flag.Conditions[f[i]]]]
        IN  CallFlagProc(flagProc(permuted), ctx) = result

\* C8 as claimed: for a flag definition with overridden=true and at least one
\* condition, the compiled predicate is true exactly when some condition has all
\* of its checks true, whatever the order of the conditions.
OrOfAndsAsClaimed ==
    (unit.stage = "called" /\ unit.kind = "flag" /\ unit.flag.Overridden
        /\ Len(unit.flag.Conditions) >= 1) =>
        /\ unit.out = BoolV(\E i \in 1..Len(unit.flag.Conditions) :
                               \A j \in 1..Len(unit.flag.Conditions[i].Checks) :
                                   CheckHolds(unit.flag.Conditions[i].Checks[j], unit.ctx))
        /\ OrderIrrelevant(unit.flag, unit.ctx, unit.out.v)

\* C8 amended: for a flag definition with overridden=true, enabled=true and at
\* least one condition, the compiled predicate is true exactly when some
\* condition has at least one check and all of its checks true, whatever the
\* order of the conditions.
OrOfAnds ==
    (unit.stage = "called" /\ unit.kind = "flag" /\ unit.flag.Overridden
        /\ unit.flag.Enabled /\ Len(unit.flag.Conditions) >= 1) =>
        /\ unit.out = BoolV(\E i \in 1..Len(unit.flag.Conditions) :
                               /\ Len(unit.flag.Conditions[i].Checks) >= 1
                               /\ \A j \in 1..Len(unit.flag.Conditions[i].Checks) :
                                     CheckHolds(unit.flag.Conditions[i].Checks[j], unit.ctx))
        /\ OrderIrrelevant(unit.flag, unit.ctx, unit.out.v)

\* C8 witness: an enabled, overridden flag with two different conditions, of
\* which the first, of two checks, fails on one of them and the second passes
OrOfAndsWitness ==
    /\ unit.stage = "called"
    /\ unit.kind = "flag"
    /\ unit.flag.Overridden
    /\ unit.flag.Enabled
    /\ Len(unit.flag.Conditions) = 2
    /\ Len(unit.flag.Conditions[1].Checks) = 2
    /\ CheckHolds(unit.flag.Conditions[1].Checks[1], unit.ctx)
    /\ ~CheckHolds(unit.flag.Conditions[1].Checks[2], unit.ctx)
    /\ Len(unit.flag.Conditions[2].Checks) = 1
    /\ CheckHolds(unit.flag.Conditions[2].Checks[1], unit.ctx)
    /\ unit.out = BoolV(TRUE)

\* the conditions of a value definition, by position, that a context passes
PassingAsClaimed(value, ctx) ==
    {i \in 1..Len(value.Conditions) :
        \A j \in 1..Len(value.Conditions[i].Checks) :
            CheckHolds(value.Conditions[i].Checks[j], ctx)}

Passing(value, ctx) ==
    {i \in PassingAsClaimed(value, ctx) : Len(value.Conditions[i].Checks) >= 1}

Lowest(S) == CHOOSE i \in S : \A j \in S : i <= j

\* C10 as claimed: for an overridden, enabled value definition with conditions,
\* evaluation returns the value_override of the first condition whose checks all
\* pass, and the base value_override when no condition passes.
FirstMatchAsClaimed ==
    (unit.stage = "called" /\ unit.kind = "value" /\ unit.value.Overridden
        /\ unit.value.Enabled /\ Len(unit.value.Conditions) >= 1) =>
        unit.out = IF PassingAsClaimed(unit.value, unit.ctx) # {}
                   THEN unit.value.Conditions[Lowest(PassingAsClaimed(unit.value, unit.ctx))].ValueOverride
                   ELSE unit.value.ValueOverride

\* C10 amended: for an overridden, enabled value definition with conditions,
\* evaluation returns the value_override of the first condition, in declaration
\* order, that has at least one check and whose checks all pass, and the base
\* value_override (not the default) when there is no such condition.
FirstMatch ==
    (unit.stage = "called" /\ unit.kind = "value" /\ unit.value.Overridden
        /\ unit.value.Enabled /\ Len(unit.value.Conditions) >= 1) =>
        unit.out = IF Passing(unit.value, unit.ctx) # {}
                   THEN unit.value.Conditions[Lowest(Passing(unit.value, unit.ctx))].ValueOverride
                   ELSE unit.value.ValueOverride

\* C10 witness: two conditions with different overrides both pass, and the
\* evaluation returned the override of the first
FirstMatchWitness ==
    /\ unit.stage = "called"
    /\ unit.kind = "value"
    /\ unit.value.Overridden
    /\ unit.value.Enabled
    /\ Passing(unit.value, unit.ctx) = {1, 2}
    /\ unit.value.Conditions[1].ValueOverride # unit.value.Conditions[2].ValueOverride
    /\ unit.value.Conditions[1].Checks # unit.value.Conditions[2].Checks
    /\ unit.out = unit.value.Conditions[1].ValueOverride

\* C11: for a value definition with overridden=false the compiled predicate
\* returns the definition's value_default for every context, whatever its
\* enabled field, value_override and conditions are.
NotOverriddenValueIsDefault ==
    (unit.stage = "called" /\ unit.kind = "value" /\ ~unit.value.Overridden) =>
        /\ unit.out = unit.value.ValueDefault
        /\ \A ctx \in UnitContexts :
              CallValueProc(unit.vproc, ctx) = unit.value.ValueDefault

\* C11 witness: a definition that is not overridden, is enabled, carries a base
\* override other than its default and a condition the context passes, and
\* evaluated to its default
NotOverriddenValueWitness ==
    /\ unit.stage = "called"
    /\ unit.kind = "value"
    /\ ~unit.value.Overridden
    /\ unit.value.Enabled
    /\ unit.value.ValueOverride # unit.value.ValueDefault
    /\ Passing(unit.value, unit.ctx) # {}
    /\ unit.out = unit.value.ValueDefault

\* the evaluated value has the type a typed accessor asks for: an int or a
\* float64 for the Int accessors, a string for the String accessors
HasRequestedType(op, value) ==
    IF op \in {"GetValueInt", "MustGetValueInt"} THEN value.t \in {"int", "float64"}
    ELSE value.t = "string"

\* a value of the requested type as the accessor returns it
Coerced(value) ==
    IF value.t = "float64" THEN IntV(TruncToInt(value.v)) ELSE value

\* C12 as claimed: GetValueInt and GetValueString fail with not-found exactly
\* when the key has no entry, fail with wrong-type exactly when the key has an
\* entry whose evaluated value is not of the requested type, and otherwise
\* return the evaluated value.
TypedGetErrors ==
    (pc["main"] = "direct" /\ arg.op \in {"GetValueInt", "GetValueString"}) =>
        LET has == arg.name \in DOMAIN valueState
            value == getValueState(valueState, arg.name, arg.ctx)
            typed == HasRequestedType(arg.op, value)
        IN  /\ (out = ErrNotFound) <=> ~has
            /\ (out = ErrCannotCast) <=> (has /\ ~typed)
            /\ (has /\ typed) => out = Coerced(value)

\* C13 as claimed: MustGetValueInt and MustGetValueString panic only when the
\* key has no entry; for a key with an entry they return the evaluated value
\* when it has the requested type, and otherwise the key's default coerced the
\* same way (nothing is asked here of a default no coercion applies to).
MustGetFallsBack ==
    (pc["main"] = "direct" /\ arg.op \in {"MustGetValueInt", "MustGetValueString"}) =>
        LET has == arg.name \in DOMAIN valueState
            value == getValueState(valueState, arg.name, arg.ctx)
            typed == HasRequestedType(arg.op, value)
        IN  /\ ~has => out = PanicNeverDefined
            /\ (has /\ typed) => out = Coerced(value)
            /\ (has /\ ~typed /\ HasRequestedType(arg.op, valueState[arg.name].DefaultValue)) =>
                  out = Coerced(valueState[arg.name].DefaultValue)

\* a step of the values loop of State.Update that applied a definition
ValueIteration == \E p \in Procs : pc[p] = "values" /\ named'.read = named.read + 1

\* C14: IsValueOverridden is false for every name when the client is built (a
\* name with no entry, a registered key no merge has touched); an iteration of
\* a version-changing merge that applies a definition makes it the overridden
\* field of that definition for the definition's key, true or false, and
\* nothing else changes it for any name.
IsValueOverriddenFollowsMerges ==
    /\ \A n \in {"V", "W", "N"} : ~IsValueOverridden(valueState, n)
    /\ [][\A n \in {"V", "W", "N"} :
            IF ValueIteration
            THEN \A d \in SyncValueDefs \cup AccessValueDefs :
                    valueState' = updateValue(valueState, d) =>
                        IsValueOverridden(valueState', n) =
                            IF n = d.Name THEN d.Overridden
                            ELSE IsValueOverridden(valueState, n)
            ELSE IsValueOverridden(valueState', n) = IsValueOverridden(valueState, n)]_vars

\* C14 witness: a version-changing merge has applied a definition with
\* overridden=false to a key the last finished merge had left overridden
IsValueOverriddenWitness ==
    /\ \E p \in Procs : pc[p] = "updated"
    /\ version # committed.version
    /\ "V" \in named.values
    /\ IsValueOverridden(committed.valueState, "V")
    /\ ~IsValueOverridden(valueState, "V")

\* a step leaves the store, the lock and every evaluation as they were
StoreUntouched ==
    /\ Store' = Store
    /\ mu' = mu
    /\ \A a \in SyncEvalArgs :
          Evaluation(flagState', valueState', a) = Evaluation(flagState, valueState, a)

\* C15: when the round trip of a Sync or a Load fails, the call returns
\* ErrorCantSyncFlags or ErrorCantLoadFlags (its own sentinel, joined to the
\* cause) and neither the failure nor the return changes the version, a flag
\* entry, a value entry or the result of any evaluation.
FailedCallChangesNothing ==
    [][\A p \in Procs :
          /\ (pc[p] = "wait" /\ pc'[p] = "erred") =>
                /\ call[p] = "Sync" => err'[p] = ErrorCantSyncFlags
                /\ call[p] = "Load" => err'[p] = ErrorCantLoadFlags
                /\ call[p] \in {"Sync", "Load"}
                /\ StoreUntouched
          /\ (pc[p] = "erred" /\ pc'[p] # "erred") => StoreUntouched]_vars

\* C15 witness: after at least one merge, a Load of the application and the Sync
\* of SyncLoop are both returning their errors
FailedCallWitness ==
    /\ ready
    /\ version # 0
    /\ "B" \in DOMAIN flagState
    /\ pc["main"] = "erred"
    /\ err["main"] = ErrorCantLoadFlags
    /\ pc["loop"] = "erred"
    /\ err["loop"] = ErrorCantSyncFlags

\* a definition is a constant one: overridden, with no conditions
IsConstantDef(d) == d.Overridden /\ Len(d.Conditions) = 0

\* the store answers for a constant flag definition / value definition
ReflectsFlag(d) ==
    \A ctx \in Contexts : getFlagState(flagState, d.Name, ctx) = d.Enabled

ReflectsValue(d) ==
    \A ctx \in Contexts : getValueState(valueState, d.Name, ctx) = d.ValueOverride

\* the merge that is finishing has read its payload (it changed the version)
MergeReadPayload == version # committed.version

\* the last definition the finishing merge applied for a name is d
FlagAppliedLast(d) == d.Name \in named.flags /\ lastFlagDef[d.Name] = d

ValueAppliedLast(d) ==
    /\ d.Name \in named.values
    /\ valueState[d.Name] = updateValue(committed.valueState, d)[d.Name]

InitialLoadFirst ==
    /\ [](~ready =>
            /\ pc["loop"] = "off"
            /\ pc["main"] \notin {"ready", "rlocked", "runlock"}
            /\ \A p \in Procs : call[p] # "Sync"
            /\ call["loop"] = "none"
            /\ arg = NoArg)
    /\ [](pc["main"] = "failed" =>
            ~ready /\ pc["loop"] = "off" /\ err["main"] = ErrorCantLoadFlags)
    /\ [][/\ (~ready /\ ready') =>
                /\ pc["main"] = "updated"
                /\ call["main"] = "Load"
                /\ mu.writer = "main"
                /\ mu'.writer = "none"
                /\ pc'["main"] = "ready"
          /\ (pc["loop"] = "off" /\ pc'["loop"] # "off") => (~ready /\ ready')
          /\ pc["main"] = "failed" => (pc' = pc /\ ready' = ready)]_vars

\* C17 witness: the client has just been returned after an initial Load that
\* merged a version, SyncLoop sleeps before its first Sync
InitialLoadWitness ==
    /\ ready
    /\ pc["main"] = "ready"
    /\ pc["loop"] = "sleep"
    /\ call = [p \in Procs |-> "none"]
    /\ version # 0
    /\ Store = committed
    /\ serverVersion = version

\* the check of the unit has been compiled and called
CheckCalled == unit.kind = "check" /\ unit.stage = "called"

\* C18: for each of the eleven operators, a check whose variable is missing
\* from the context (the empty context included) evaluates to false and does
\* not panic, whatever its literal
MissingVariableIsFalse ==
    (/\ CheckCalled
     /\ unit.check.Operator \in operatorFuncs
     /\ ~Has(unit.ctx, unit.check.Variable))
    => unit.out = BoolV(FALSE)

\* C18 witness: a percent check of threshold 100, which is true of every value,
\* called on a non-empty context that lacks its variable
MissingVariableWitness ==
    /\ CheckCalled
    /\ unit.check = Check(OpPercent, "id", IntV(100))
    /\ unit.ctx = [tier |-> StrV(s_gold)]
    /\ unit.cproc.fn = "op"
    /\ unit.out = BoolV(FALSE)

\* C19 as stated: a percent check with a numeric threshold t, on a context that
\* holds the variable, is true exactly when hash mod 100 < t (t in tenths)
PercentIsHashBelowThreshold ==
    (/\ CheckCalled
     /\ unit.check.Operator = OpPercent
     /\ IsNumeric(unit.check.Value)
     /\ Has(unit.ctx, unit.check.Variable))
    => unit.out = BoolV(10 * HashMod100(hashFlagValue(unit.check.Variable,
                                                      unit.ctx[unit.check.Variable]))
                        < toFloat64(unit.check.Value))

\* the elements of a collection, coerced to strings
Elements(x) ==
    IF x.t = "[]string" THEN {x.v[i] : i \in 1..Len(x.v)}
    ELSE {toString(x.v[i]) : i \in 1..Len(x.v)}

\* C20: on a context that holds the variable, Subset is true exactly when the
\* literal and the context value are non-empty collections and every element of
\* the context value is in the literal; Superset is true exactly when both are
\* non-empty collections and every element of the literal is in the context
\* value; a literal or a context value that is not a collection gives false
SubsetSupersetSemantics ==
    (/\ CheckCalled
     /\ unit.check.Operator \in {OpSubset, OpSuperset}
     /\ Has(unit.ctx, unit.check.Variable))
    => LET L == unit.check.Value
           C == unit.ctx[unit.check.Variable]
       IN  unit.out =
             BoolV(/\ IsSlice(L)
                   /\ IsSlice(C)
                   /\ Elements(L) # {}
                   /\ Elements(C) # {}
                   /\ IF unit.check.Operator = OpSubset
                      THEN Elements(C) \subseteq Elements(L)
                      ELSE Elements(L) \subseteq Elements(C))

\* C20 witness: Superset of the literal [gold] holds of the context value
\* [gold free], of which Subset of the same literal would not hold
SubsetSupersetWitness ==
    /\ CheckCalled
    /\ unit.check = Check(OpSuperset, "roles", ListV(<<StrV(s_gold)>>))
    /\ unit.ctx = [roles |-> StringsV(<<s_gold, s_free>>)]
    /\ unit.out = BoolV(TRUE)

\* the positions of a goroutine between the call of Sync / Load and the receipt
\* of the decoded response or of the error
RoundTripPcs == {"request", "wait", "erred"}

\* the positions of a goroutine inside the locked merge
MergePcs == {"update", "flags", "values", "updated"}

\* C21: the write lock is never held by a goroutine whose round trip is in
\* flight; in the running process it is held only inside the merge, it is taken
\* only from the position after the decoded response and given back only when
\* the merge has returned; so while the only other goroutine is in its round
\* trip an evaluation can take the read lock
LockOnlyForMerge ==
    /\ [](\A p \in Procs :
            /\ mu.writer = p /\ pc[p] # "crashed" => pc[p] \in MergePcs
            /\ pc[p] \in RoundTripPcs \cup {"lock", "sleep", "ready"} => mu.writer # p)
    /\ []((\E p \in Procs : pc[p] \in RoundTripPcs)
          /\ (\A p \in Procs : pc[p] \notin MergePcs)
          => canRLock(mu))
    /\ [][\A p \in Procs :
            /\ (mu.writer # p /\ mu'.writer = p) =>
                  pc[p] = "lock" /\ res[p] # -1 /\ pc'[p] = "update"
            /\ (mu.writer = p /\ mu'.writer # p) =>
                  pc[p] = "updated" /\ pc'[p] \notin MergePcs]_vars

\* C21 witness: the application evaluates under the read lock while the request
\* of SyncLoop is in flight
LockOnlyForMergeWitness ==
    /\ pc["loop"] = "wait"
    /\ call["loop"] = "Sync"
    /\ pc["main"] = "runlock"
    /\ mu = [writer |-> "none", readers |-> {"main"}]
    /\ out # Nil

SeededDefaultKept ==
    [][\A n \in ValueKeys \cup {"N"} :
          /\ (n \notin DOMAIN valueState /\ n \in DOMAIN valueState') =>
                /\ ValueIteration
                /\ \A d \in AccessValueDefs :
                      valueState' = updateValue(valueState, d) =>
                          d.Name = n /\ valueState'[n].DefaultValue = d.ValueDefault
          /\ n \in DOMAIN valueState =>
                /\ n \in DOMAIN valueState'
                /\ valueState'[n].DefaultValue = valueState[n].DefaultValue]_vars

\* C23 as claimed: a value key that was not registered and that a merge has
\* named gets the value_default of the payload as its default and keeps it
\* through later merges; MustGetValueInt and MustGetValueString on that key do
\* not panic for a key never defined, and when the evaluated value has not the
\* requested type they return that default, coerced as values are
SeededDefaultFallsBack ==
    /\ SeededDefaultKept
    /\ []((/\ pc["main"] = "direct"
           /\ arg.op \in {"MustGetValueInt", "MustGetValueString"}
           /\ arg.name \in DOMAIN valueState
           /\ arg.name \notin NameSet(defaults.Values)) =>
            LET value == getValueState(valueState, arg.name, arg.ctx)
                dflt == valueState[arg.name].DefaultValue
            IN  /\ out # PanicNeverDefined
                /\ (~HasRequestedType(arg.op, value) /\ HasRequestedType(arg.op, dflt)) =>
                      out = Coerced(dflt))

\* C24: for a value definition with overridden=true and enabled=false the
\* compiled predicate returns the base value_override for every context,
\* with or without conditions, passed or not; never the default
DisabledValueIsBaseOverride ==
    (unit.stage = "called" /\ unit.kind = "value" /\ unit.value.Overridden
        /\ ~unit.value.Enabled) =>
        /\ unit.out = unit.value.ValueOverride
        /\ \A ctx \in UnitContexts :
              CallValueProc(unit.vproc, ctx) = unit.value.ValueOverride

\* C24 witness: a disabled, overridden definition whose first condition the
\* context passes and carries another override evaluated to the base override
DisabledValueWitness ==
    /\ unit.stage = "called"
    /\ unit.kind = "value"
    /\ unit.value.Overridden
    /\ ~unit.value.Enabled
    /\ 1 \in Passing(unit.value, unit.ctx)
    /\ unit.value.Conditions[1].ValueOverride # unit.value.ValueOverride
    /\ unit.out = unit.value.ValueOverride

\* a condition that has at least one check
HasChecks(condition) == Len(condition.Checks) >= 1

\* C25: a condition with no checks never matches. An overridden, enabled flag
\* whose conditions all have an empty check list is false for every context;
\* an overridden, enabled value with conditions evaluates as the same
\* definition does once its empty-check conditions are taken out: to the
\* override of the first remaining condition that passes, else the base override
EmptyConditionNeverMatches ==
    /\ (unit.stage = "called" /\ unit.kind = "flag" /\ unit.flag.Overridden
          /\ unit.flag.Enabled /\ Len(unit.flag.Conditions) >= 1
          /\ \A i \in 1..Len(unit.flag.Conditions) : ~HasChecks(unit.flag.Conditions[i])) =>
          /\ unit.out = BoolV(FALSE)
          /\ \A ctx \in UnitContexts : ~CallFlagProc(unit.fproc, ctx)
    /\ (unit.stage = "called" /\ unit.kind = "value" /\ unit.value.Overridden
          /\ unit.value.Enabled /\ Len(unit.value.Conditions) >= 1) =>
          LET kept == SelectSeq(unit.value.Conditions, HasChecks)
              later == Passing([unit.value EXCEPT !.Conditions = kept], unit.ctx)
          IN  unit.out = IF later = {} THEN unit.value.ValueOverride
                         ELSE kept[Lowest(later)].ValueOverride

\* C25 witness: the first condition of an enabled, overridden value has no
\* checks, the second passes and carries another override, which was returned
EmptyConditionWitness ==
    /\ unit.stage = "called"
    /\ unit.kind = "value"
    /\ unit.value.Overridden
    /\ unit.value.Enabled
    /\ Len(unit.value.Conditions) = 2
    /\ ~HasChecks(unit.value.Conditions[1])
    /\ Passing(unit.value, unit.ctx) = {2}
    /\ unit.value.Conditions[1].ValueOverride # unit.value.Conditions[2].ValueOverride
    /\ unit.out = unit.value.Conditions[2].ValueOverride

\* C29: for a flag definition with overridden=true and enabled=false the
\* compiled predicate is false for every context, also when the definition has
\* conditions the context passes
DisabledFlagIsFalse ==
    (unit.stage = "called" /\ unit.kind = "flag" /\ unit.flag.Overridden
        /\ ~unit.flag.Enabled) =>
        /\ unit.out = BoolV(FALSE)
        /\ \A ctx \in UnitContexts : ~CallFlagProc(unit.fproc, ctx)

\* C29 witness: a disabled, overridden flag with a condition of two checks that
\* the context passes evaluated to false
DisabledFlagWitness ==
    /\ unit.stage = "called"
    /\ unit.kind = "flag"
    /\ unit.flag.Overridden
    /\ ~unit.flag.Enabled
    /\ Len(unit.flag.Conditions) >= 1
    /\ Len(unit.flag.Conditions[1].Checks) = 2
    /\ \A j \in 1..2 : CheckHolds(unit.flag.Conditions[1].Checks[j], unit.ctx)
    /\ unit.out = BoolV(FALSE)

\* a check that is true of every context that holds its variable
AlwaysPasses(name) == Check(OpPercent, name, IntV(100))

\* C26: a check whose operator is none of the eleven, or whose literal is nil,
\* compiles to the predicate that is false of every context, also of contexts
\* that hold the variable; a condition that contains it, before or after a
\* check that passes, does not match
UnknownCheckIsFalse ==
    (/\ CheckCalled
     /\ unit.check.Operator \notin operatorFuncs \/ unit.check.Value = Nil) =>
        /\ unit.out = BoolV(FALSE)
        /\ \A ctx \in OpContexts : CheckOutcomes(unit.cproc, ctx) = {BoolV(FALSE)}
        /\ \A ctx \in OpContexts :
              LET other == AlwaysPasses(unit.check.Variable)
              IN  /\ ~allPass(compileChecks(<<other, unit.check>>), ctx)
                  /\ ~allPass(compileChecks(<<unit.check, other>>), ctx)
                  /\ ~CallFlagProc(flagProc(FlagResponse("A", TRUE, TRUE,
                                      <<[Checks |-> <<other, unit.check>>]>>)), ctx)

\* C26 witness: a check of an operator without implementation whose literal
\* equals the value the context holds for its variable evaluated to false
UnknownCheckWitness ==
    /\ CheckCalled
    /\ unit.check = Check(OpSuperset + 1, "tier", StrV(s_gold))
    /\ unit.ctx = [tier |-> StrV(s_gold), id |-> IntV(1)]
    /\ CallCheck(checkProc(AlwaysPasses("tier")), unit.ctx)
    /\ unit.out = BoolV(FALSE)

\* the four ordered comparisons
OrderOps == {OpLessThan, OpLessOrEqual, OpGreaterThan, OpGreaterOrEqual}

\* the comparison an ordered operator stands for, of a context value C with a
\* literal L: of the two numbers when both are numbers (a comparison with the
\* float64 that is not a number is false), else of the two string forms
Ordered(op, C, L) ==
    IF IsNumeric(C) /\ IsNumeric(L)
    THEN /\ ~IsNaN(C) /\ ~IsNaN(L)
         /\ CASE op = OpLessThan -> toFloat64(C) < toFloat64(L)
              [] op = OpLessOrEqual -> toFloat64(C) <= toFloat64(L)
              [] op = OpGreaterThan -> toFloat64(C) > toFloat64(L)
              [] op = OpGreaterOrEqual -> toFloat64(C) >= toFloat64(L)
    ELSE LET a == toString(C)
             b == toString(L)
         IN  CASE op = OpLessThan -> StrLess(a, b)
               [] op = OpLessOrEqual -> StrLess(a, b) \/ a = b
               [] op = OpGreaterThan -> StrLess(b, a)
               [] op = OpGreaterOrEqual -> StrLess(b, a) \/ a = b

\* what the check of the unit gives with another operator in its place
WithOperator(op) ==
    CallCheck(checkProc(Check(op, unit.check.Variable, unit.check.Value)), unit.ctx)

\* an ordered comparison has been called on a context that holds its variable
OrderedCalled ==
    /\ CheckCalled
    /\ unit.check.Operator \in OrderOps
    /\ unit.check.Value # Nil
    /\ Has(unit.ctx, unit.check.Variable)

RequestsRaceFree ==
    \A p \in Procs : pc[p] = "request" => ~Merging(p)

\* the values registered at MakeClient and the default each was registered with
RegisteredValues == NameSet(defaults.Values)

RegisteredValue(k) ==
    (CHOOSE v \in {defaults.Values[i] : i \in 1..Len(defaults.Values)} : v.Name = k).Value

\* the entry of k is the one MakeClient built: registered default as current
\* value and as default, not overridden, no compiled predicate
AsRegistered(k) ==
    /\ k \in DOMAIN valueState
    /\ valueState[k] = ValueState(k, RegisteredValue(k), RegisteredValue(k), FALSE,
                                  NilValueProc)

\* the step is an iteration of the values loop of State.Update on a definition
\* that names k
AppliesValueTo(k) ==
    /\ \E p \in Procs : pc[p] = "values"
    /\ \E value \in AccessValueDefs :
          /\ value.Name = k
          /\ valueState' = updateValue(valueState, value)

\* C30: a value registered at MakeClient has no compiled predicate until a
\* definition that names it is applied: MakeClient builds its entry without
\* one, every step other than the application of a definition naming the key
\* leaves the entry as it was built (and such an application gives it a
\* predicate); for such an entry GetValue returns the registered default for
\* every context, and so do the typed accessors of the type of the default (the
\* Int accessors give a float64 default truncated)
RegisteredValueUncompiled ==
    /\ \A k \in RegisteredValues : AsRegistered(k)
    /\ [][\A k \in RegisteredValues :
            /\ (AsRegistered(k) /\ ~AppliesValueTo(k)) => AsRegistered(k)'
            /\ AppliesValueTo(k) => valueState'[k].Proc.kind # "nil"]_vars
    /\ [](\A k \in RegisteredValues :
            AsRegistered(k) =>
                /\ valueState[k].Proc.kind = "nil"
                /\ \A ctx \in Contexts :
                      getValueState(valueState, k, ctx) = RegisteredValue(k)
                /\ (pc["main"] = "direct" /\ arg.name = k) =>
                      /\ arg.op = "GetValue" => out = RegisteredValue(k)
                      /\ (arg.op # "GetValue" /\ HasRequestedType(arg.op, RegisteredValue(k)))
                            => out = Coerced(RegisteredValue(k)))

\* C30 witness: after a merge that named only W, MustGetValueInt of the
\* registered V, which still has no predicate, gives the registered float64
\* default 2.5 as 2 for a context that is not empty
RegisteredValueWitness ==
    /\ pc["main"] = "direct"
    /\ version > 0
    /\ "W" \in DOMAIN valueState
    /\ AsRegistered("V")
    /\ RegisteredValue("V") = FloatV(25)
    /\ arg.op = "MustGetValueInt"
    /\ arg.name = "V"
    /\ arg.ctx # EmptyCtx
    /\ out = IntV(2)

====
